---- MODULE Spec2Model ----
(***************************************************************************)
(* A model of sse-kit: the server-side StreamOrchestrator                  *)
(* (src/src/server/stream-orchestrator.ts), the client-side circuit       *)
(* breaker and its shared registry (src/unnamed/part_005), the            *)
(* reconnection manager, sleep and withRetry (src/unnamed/part_006),       *)
(* calculateBackoffDelay (src/src/types/stream-config.ts), the timeout     *)
(* utilities (src/unnamed/part_007) and the SSE codec: formatSSEMessage    *)
(* (src/src/server/sse-helpers.ts), createSSEParser and parseSSEStream     *)
(* and the useSSEStream hook (src/src/client/use-sse-stream.ts).  Each     *)
(* component has its own specification; the variables of the other         *)
(* components stay at their initial values.                                *)
(***************************************************************************)
EXTENDS Integers, Sequences, FiniteSets, TLC

VARIABLES
  \* ---- StreamOrchestrator fields (stream-orchestrator.ts:90-99) ----
  isClosed,           \* private isClosed
  isAborted,          \* private isAborted
  heartbeatInterval,  \* TRUE iff the setInterval handle is non-null
  lastError,          \* "none" or the message of the recorded Error
  abortHandler,       \* TRUE iff the 'abort' listener is registered
  bytesSent,          \* private bytesSent
  heartbeatEnabled,   \* config.heartbeat.enabled
  signal,             \* config.signal: "none" | "idle" | "aborted"
  \* ---- the orchestrator's collaborators ----
  controller,         \* ReadableStreamDefaultController: "readable" | "closed"
  sink,               \* the chunks enqueue() accepted, in order (decoded text)
  enqueueCalls,       \* calls of controller.enqueue, throwing ones included
  hooks,              \* the observer hooks invoked so far, in order
  \* ---- the caller's view of the last orchestrator call ----
  lastOp,             \* the operation that ran last
  thrown,             \* what it threw to its caller ("none": it returned)
  closeCalled,        \* close() has been called on this session
  abortCalled,        \* abort() has been called on this session
  \* ---- createCircuitBreaker's closure (part_005:102-111) ----
  state,              \* "closed" | "open" | "half_open"
  failures,
  successes,
  lastFailureTime,
  resetTimeout,       \* the setTimeout handle: null, pending (with its due
                      \* time) or already fired
  failureThreshold,   \* config.failureThreshold
  successThreshold,   \* config.successThreshold
  resetTimeoutMs,     \* config.resetTimeoutMs
  customIsFailure,    \* TRUE iff options.isFailure is given
  \* ---- the breaker's environment ----
  now,                \* Date.now()
  inflight,           \* operations execute() has invoked and still awaits
  \* ---- the caller's view of the breaker, and its history ----
  cbLast,             \* the last breaker event and what the caller got
  openedAt,           \* when the breaker last entered open
  consec,             \* counted failures since the last success or reset()
  hoSucc,             \* successes recorded in the current half_open period
  \* ---- the shared breaker registry (part_005:229-236) ----
  globalBreakers,     \* the Map name -> BreakerEntry
  cleanupTimers,      \* the armed eviction timers (setTimeout handles)
  created,            \* breakers createCircuitBreaker has made so far
  regNow,             \* Date.now() of the registry's clock
  \* ---- the caller's view of the registry, and its history ----
  regLast,            \* the last registry event and what the caller got
  regSeen,            \* per name: the last lookup and what happened since
  \* ---- retry: reconnection manager, withRetry, sleep (part_006) ----
  retryConfig,        \* the RetryConfig in force
  managerState,       \* createReconnectionManager's `state`
  calls,              \* the execute() calls on the manager, by call site
  wr,                 \* one withRetry() call
  sl,                 \* one sleep() call of the application
  \* ---- calculateBackoffDelay (stream-config.ts:133-146) ----
  backoff,            \* the arguments and the result of the last call
  \* ---- timeouts (part_007) ----
  toClock,            \* the time the timers of this component run on
  tc,                 \* one createTimeoutController / fetchWithTimeout run
  idt,                \* one createIdleTimeout instance of the application
  rs,                 \* one readStreamWithIdleTimeout run
  \* ---- the SSE codec (sse-helpers.ts, use-sse-stream.ts) ----
  wire,               \* the text the server wrote, and how much arrived
  parser,             \* one createSSEParser closure
  sse,                \* one parseSSEStream call
  \* ---- useSSEStream (use-sse-stream.ts) ----
  streamState,        \* the reducer's state
  abortControllerRef, \* abortControllerRef.current
  runs                \* the start() calls made so far

oFields == <<isClosed, isAborted, heartbeatInterval, lastError, abortHandler,
             bytesSent, heartbeatEnabled, signal, controller, sink,
             enqueueCalls, hooks>>
oVars == <<oFields, lastOp, thrown, closeCalled, abortCalled>>

cbFields == <<state, failures, successes, lastFailureTime, resetTimeout,
              failureThreshold, successThreshold, resetTimeoutMs,
              customIsFailure, now>>
cbVars == <<cbFields, inflight, cbLast, openedAt, consec, hoSucc>>

regFields == <<globalBreakers, cleanupTimers, created, regNow>>
regVars == <<regFields, regLast, regSeen>>

retryVars == <<retryConfig, managerState, calls, wr, sl>>

timeoutVars == <<toClock, tc, idt, rs>>

codecVars == <<wire, parser, sse>>

hookVars == <<streamState, abortControllerRef, runs>>

vars == <<oVars, cbVars, regVars, retryVars, backoff, timeoutVars,
          codecVars, hookVars>>

----------------------------------------------------------------------------
\* Bounds of the model.
MaxEnqueue == 2     \* calls of controller.enqueue per session

\* JavaScript's undefined, for an optional field that is not set.
Undefined == "undefined"

----------------------------------------------------------------------------
\* The orchestrator as one record, so that its methods are functions from
\* the state before the call to the state after it.
Cur ==
  [isClosed |-> isClosed, isAborted |-> isAborted,
   heartbeatInterval |-> heartbeatInterval, lastError |-> lastError,
   abortHandler |-> abortHandler, bytesSent |-> bytesSent,
   heartbeatEnabled |-> heartbeatEnabled, signal |-> signal,
   controller |-> controller, sink |-> sink, enqueueCalls |-> enqueueCalls,
   hooks |-> hooks, thrown |-> "none"]

Becomes(s) ==
  /\ isClosed' = s.isClosed
  /\ isAborted' = s.isAborted
  /\ heartbeatInterval' = s.heartbeatInterval
  /\ lastError' = s.lastError
  /\ abortHandler' = s.abortHandler
  /\ bytesSent' = s.bytesSent
  /\ heartbeatEnabled' = s.heartbeatEnabled
  /\ signal' = s.signal
  /\ controller' = s.controller
  /\ sink' = s.sink
  /\ enqueueCalls' = s.enqueueCalls
  /\ hooks' = s.hooks
  /\ thrown' = s.thrown

\* An observer hook call: its name and its (up to two) arguments of interest.
Hook(s, name, a, b) == [s EXCEPT !.hooks = Append(@, <<name, a, b>>)]
----------------------------------------------------------------------------
\* JSON values and the string functions of JavaScript.  Texts are strings; a
\* JSON value is a record of its type t and its content: b of a boolean, n
\* of a number, s of a string, a the elements of an array or the members of
\* an object.
JNull == [t |-> "null", b |-> FALSE, n |-> 0, s |-> "", a |-> <<>>]
JBool(b) == [JNull EXCEPT !.t = "boolean", !.b = b]
JNum(n) == [JNull EXCEPT !.t = "number", !.n = n]
JStr(s) == [JNull EXCEPT !.t = "string", !.s = s]
JArr(elements) == [JNull EXCEPT !.t = "array", !.a = elements]
JObj(members) == [JNull EXCEPT !.t = "object", !.a = members]
JMember(key, value) == [k |-> key, v |-> value]

Digits == "0123456789"
Whitespace == {" ", "\n", "\t", "\r"}

\* s.charAt(i), one-based; "" past the end.
charAt(s, i) == IF i >= 1 /\ i <= Len(s) THEN SubSeq(s, i, i) ELSE ""

\* s.slice(from), zero-based as in JavaScript.
slice(s, from) == IF from >= Len(s) THEN "" ELSE SubSeq(s, from + 1, Len(s))

startsWith(s, prefix) ==
  Len(prefix) <= Len(s) /\ SubSeq(s, 1, Len(prefix)) = prefix

RECURSIVE split(_, _)
split(s, separator) ==
  LET hits == {i \in 1..(Len(s) - Len(separator) + 1) :
                 SubSeq(s, i, i + Len(separator) - 1) = separator}
  IN  IF hits = {} THEN <<s>>
      ELSE LET i == CHOOSE h \in hits : \A g \in hits : h <= g
           IN  <<SubSeq(s, 1, i - 1)>>
                 \o split(slice(s, i + Len(separator) - 1), separator)

RECURSIVE trim(_)
trim(s) ==
  IF s = "" THEN s
  ELSE IF charAt(s, 1) \in Whitespace THEN trim(slice(s, 1))
  ELSE IF charAt(s, Len(s)) \in Whitespace
    THEN trim(SubSeq(s, 1, Len(s) - 1))
  ELSE s

\* String(n) for a natural number.
RECURSIVE NumberToString(_)
NumberToString(n) ==
  IF n < 10 THEN charAt(Digits, n + 1)
  ELSE NumberToString(n \div 10) \o charAt(Digits, (n % 10) + 1)

\* A quoting that leaves line breaks as they are.
JSONquoteKeepsLineBreaks(s) == s

\* JSON.stringify's quoting of a string.
RECURSIVE JSONquote(_)
JSONquote(s) ==
  IF s = "" THEN ""
  ELSE LET c == charAt(s, 1)
           escaped == CASE c = "\"" -> "\\\""
                        [] c = "\\" -> "\\\\"
                        [] c = "\n" -> "\\n"
                        [] OTHER -> c
       IN  escaped \o JSONquote(slice(s, 1))

\* items.join(separator)
RECURSIVE join(_, _)
join(items, separator) ==
  IF items = <<>> THEN ""
  ELSE IF Len(items) = 1 THEN items[1]
  ELSE items[1] \o separator \o join(Tail(items), separator)

RECURSIVE JSONstringify(_)
JSONstringify(value) ==
  CASE value.t = "null" -> "null"
    [] value.t = "boolean" -> IF value.b THEN "true" ELSE "false"
    [] value.t = "number" -> NumberToString(value.n)
    [] value.t = "string" -> "\"" \o JSONquote(value.s) \o "\""
    [] value.t = "array" ->
         "[" \o join([i \in 1..Len(value.a) |->
                        JSONstringify(value.a[i])], ",") \o "]"
    [] value.t = "object" ->
         "{" \o join([i \in 1..Len(value.a) |->
                        "\"" \o JSONquote(value.a[i].k) \o "\":"
                          \o JSONstringify(value.a[i].v)], ",") \o "}"

----------------------------------------------------------------------------
\* JSON.stringify of the values the model sends.  A string is quoted; an
\* object member whose value is undefined is left out; a value that cannot
\* be serialized (a circular structure) makes JSON.stringify throw.
ErrStringify == "Converting circular structure to JSON"
ErrEnqueue == "Invalid state: Controller is already closed"
DefaultAbortReason == "Stream aborted"

Quote(v) == "\"" \o v \o "\""
Member(key, v) == IF v = Undefined THEN "" ELSE "," \o Quote(key) \o ":" \o Quote(v)

\* An update: { phase, message?, result?, error?, metadata? }, keys in this
\* order; metadata is <<>> when the update has none, else <<the object>>.
MkUpdate(phase, message, result, error, circular) ==
  [phase |-> phase, message |-> message, result |-> result, error |-> error,
   metadata |-> <<>>, circular |-> circular]

JSONStringifyUpdate(u) ==
  "{" \o Quote("phase") \o ":" \o Quote(u.phase) \o Member("message", u.message)
      \o Member("result", u.result) \o Member("error", u.error)
      \o (IF u.metadata = <<>> THEN ""
          ELSE "," \o Quote("metadata") \o ":" \o JSONstringify(u.metadata[1]))
      \o "}"

\* The frames the orchestrator writes.
UpdateFrame(u) == "data: " \o JSONStringifyUpdate(u) \o "\n\n"
EventFrame(eventType, data) ==
  "event: " \o eventType \o "\n" \o "data: " \o Quote(data) \o "\n\n"
HeartbeatFrame(message) == ": [" \o message \o "]\n\n"

\* TextEncoder.encode(text).length; the model's texts are ASCII.
EncodedLength(text) == Len(text)

----------------------------------------------------------------------------
\* controller.enqueue(chunk): accepted while the stream is readable, throws a
\* TypeError once it is closed (the consumer cancelled, or close() was called).
enqueue(s, chunk) ==
  IF s.controller = "readable"
    THEN [s EXCEPT !.enqueueCalls = @ + 1, !.sink = Append(@, chunk)]
    ELSE [s EXCEPT !.enqueueCalls = @ + 1, !.thrown = ErrEnqueue]

\* controller.close(): throws unless the stream is readable.
controllerClose(s) ==
  IF s.controller = "readable"
    THEN [s EXCEPT !.controller = "closed"]
    ELSE [s EXCEPT !.thrown = ErrEnqueue]

stopHeartbeat(s) == [s EXCEPT !.heartbeatInterval = FALSE]

cleanupAbortListener(s) ==
  IF s.signal # "none" /\ s.abortHandler
    THEN [s EXCEPT !.abortHandler = FALSE]
    ELSE s

\* handleAbort without its `this.isClosed = true`.
handleAbortKeepsOpen(s, reason) ==
  IF s.isClosed THEN s
  ELSE Hook(stopHeartbeat([s EXCEPT !.isAborted = TRUE, !.lastError = reason]),
            "onAbort", reason, Undefined)

handleAbort(s, reason) ==
  IF s.isClosed THEN s
  ELSE
    LET a == [stopHeartbeat([s EXCEPT !.isAborted = TRUE, !.lastError = reason])
                EXCEPT !.isClosed = TRUE]
        b == Hook(a, "onAbort", reason, Undefined)
        c == Hook(b, "onStreamEnd", "false", b.lastError)
        d == [controllerClose(c) EXCEPT !.thrown = "none"]  \* try/catch {}
    IN  cleanupAbortListener(d)

\* The try block of sendUpdate (lines 175-181).
sendUpdateTry(s, update) ==
  IF update.circular THEN [s EXCEPT !.thrown = ErrStringify]
  ELSE
    LET data == UpdateFrame(update)
        e == enqueue(s, data)
    IN  IF e.thrown # "none" THEN e
        ELSE Hook([e EXCEPT !.bytesSent = @ + EncodedLength(data)],
                  "onUpdateSent", update.phase, ToString(EncodedLength(data)))

\* A catch block that lets the error escape to the caller.
sendUpdateCatchRethrow(s) == s

\* The catch block of sendUpdate (lines 182-192).
sendUpdateCatch(s) ==
  Hook([s EXCEPT !.isClosed = TRUE, !.lastError = s.thrown, !.thrown = "none"],
       "onError", s.thrown, Undefined)

\* sendUpdate without its closed-flag check.
sendUpdateUnguarded(s, update) ==
  LET t == sendUpdateTry(s, update)
  IN  IF t.thrown # "none" THEN sendUpdateCatch(t) ELSE t

sendUpdate(s, update) ==
  IF s.isClosed THEN s
  ELSE LET t == sendUpdateTry(s, update)
       IN  IF t.thrown # "none" THEN sendUpdateCatch(t) ELSE t

sendProgress(s, phase, message) ==
  sendUpdate(s, MkUpdate(phase, message, Undefined, Undefined, FALSE))

CompletePhase == "complete"
ErrorPhase == "error"

sendResult(s, result) ==
  sendUpdate(s, MkUpdate(CompletePhase, Undefined, result, Undefined, FALSE))

sendError(s, error) ==
  sendUpdate(s, MkUpdate(ErrorPhase, Undefined, Undefined, error, FALSE))

sendWithMetadata(s, phase, metadata, message) ==
  sendUpdate(s, [MkUpdate(phase, message, Undefined, Undefined, FALSE)
                   EXCEPT !.metadata = <<metadata>>])

sendEvent(s, eventType, data, circular) ==
  IF s.isClosed THEN s
  ELSE LET t == IF circular THEN [s EXCEPT !.thrown = ErrStringify]
                ELSE enqueue(s, EventFrame(eventType, data))
       IN  IF t.thrown # "none"
             THEN [t EXCEPT !.isClosed = TRUE, !.thrown = "none"]
             ELSE t

startHeartbeat(s) ==
  IF ~s.heartbeatEnabled \/ s.heartbeatInterval THEN s
  ELSE [s EXCEPT !.heartbeatInterval = TRUE]

HeartbeatMessage == "heartbeat"

\* The setInterval callback of startHeartbeat (lines 266-289).
heartbeatTick(s) ==
  IF s.isClosed THEN stopHeartbeat(s)
  ELSE
    LET heartbeat == HeartbeatFrame(HeartbeatMessage)
        e == enqueue(s, heartbeat)
    IN  IF e.thrown = "none"
          THEN Hook([e EXCEPT !.bytesSent = @ + EncodedLength(heartbeat)],
                    "onHeartbeat", Undefined, Undefined)
          ELSE Hook([stopHeartbeat([e EXCEPT !.isClosed = TRUE])
                       EXCEPT !.lastError = e.thrown, !.thrown = "none"],
                    "onError", e.thrown, Undefined)

close(s) ==
  IF s.isClosed THEN s
  ELSE
    LET a == cleanupAbortListener(stopHeartbeat(s))
        c == controllerClose(a)
    IN  IF c.thrown # "none"
          THEN [c EXCEPT !.thrown = "none"]   \* catch: logged only
          ELSE Hook([c EXCEPT !.isClosed = TRUE], "onStreamEnd",
                    IF c.lastError = Undefined THEN "true" ELSE "false",
                    c.lastError)

abort(s, reason) ==
  handleAbort(s, IF reason = Undefined THEN DefaultAbortReason ELSE reason)

\* The external AbortSignal fires: its 'abort' event reaches the listener the
\* constructor registered, if it is still registered.
signalAbort(s) ==
  LET f == [s EXCEPT !.signal = "aborted"]
  IN  IF s.abortHandler THEN handleAbort(f, DefaultAbortReason) ELSE f

\* new StreamOrchestrator(controller, { signal, heartbeat: { enabled } }).
Constructor(sig, hbEnabled) ==
  LET base == [isClosed |-> FALSE, isAborted |-> FALSE,
               heartbeatInterval |-> FALSE, lastError |-> Undefined,
               abortHandler |-> FALSE, bytesSent |-> 0,
               heartbeatEnabled |-> hbEnabled, signal |-> sig,
               controller |-> "readable", sink |-> <<>>, enqueueCalls |-> 0,
               hooks |-> <<>>, thrown |-> "none"]
      wired == IF sig = "none" THEN base
               ELSE IF sig = "aborted" THEN handleAbort(base, DefaultAbortReason)
               ELSE [base EXCEPT !.abortHandler = TRUE]
  IN  Hook(wired, "onStreamStart", Undefined, Undefined)
----------------------------------------------------------------------------
\* The circuit breaker (part_005).  As for the orchestrator, the closure's
\* variables are gathered in one record and each inner function maps the
\* record before the call to the record after it.  out is what the call
\* returned or threw; invoked tells whether it invoked the wrapped operation;
\* onFailure lists the failure counts the onFailure hook was called with,
\* onStateChange the (oldState, newState) pairs of the onStateChange hook.
NoTimer == [kind |-> "null", due |-> 0]
Pending(due) == [kind |-> "pending", due |-> due]
Fired == [kind |-> "fired", due |-> 0]

\* What an operation settles with, and what execute gives its caller.
Value(v) == [kind |-> "value", message |-> v, resetTimeoutMs |-> 0, failures |-> 0]
ErrorObj(m) == [kind |-> "Error", message |-> m, resetTimeoutMs |-> 0, failures |-> 0]
NonError(v) == [kind |-> "string", message |-> v, resetTimeoutMs |-> 0, failures |-> 0]
CircuitOpenError(remaining, f) ==
  [kind |-> "CircuitOpenError", message |-> "Circuit breaker is open",
   resetTimeoutMs |-> remaining, failures |-> f]
Nothing == [kind |-> "none", message |-> "", resetTimeoutMs |-> 0, failures |-> 0]

CbCur ==
  [state |-> state, failures |-> failures, successes |-> successes,
   lastFailureTime |-> lastFailureTime, resetTimeout |-> resetTimeout,
   failureThreshold |-> failureThreshold, successThreshold |-> successThreshold,
   resetTimeoutMs |-> resetTimeoutMs, customIsFailure |-> customIsFailure,
   now |-> now, out |-> Nothing, invoked |-> FALSE, onFailure |-> <<>>,
   onStateChange |-> <<>>]

CbBecomes(b) ==
  /\ state' = b.state
  /\ failures' = b.failures
  /\ successes' = b.successes
  /\ lastFailureTime' = b.lastFailureTime
  /\ resetTimeout' = b.resetTimeout
  /\ failureThreshold' = b.failureThreshold
  /\ successThreshold' = b.successThreshold
  /\ resetTimeoutMs' = b.resetTimeoutMs
  /\ customIsFailure' = b.customIsFailure
  /\ now' = b.now

Max(a, b) == IF a >= b THEN a ELSE b

\* setState that notifies onStateChange also when the state stays the same.
setStateAlwaysNotifies(b, newState) ==
  [b EXCEPT !.state = newState,
            !.onStateChange = Append(@, <<b.state, newState>>)]

setState(b, newState) ==
  IF b.state # newState
    THEN [b EXCEPT !.state = newState,
                   !.onStateChange = Append(@, <<b.state, newState>>)]
    ELSE b

\* scheduleHalfOpen that keeps an existing handle instead of re-arming.
scheduleHalfOpenOnce(b) ==
  IF b.resetTimeout.kind # "null" THEN b
  ELSE [b EXCEPT !.resetTimeout = [kind |-> "pending", due |-> b.now + b.resetTimeoutMs]]

\* clearTimeout(resetTimeout) if set, then a fresh setTimeout(resetTimeoutMs).
scheduleHalfOpen(b) ==
  [b EXCEPT !.resetTimeout = Pending(b.now + b.resetTimeoutMs)]

\* The callback of that timer.
halfOpenTimer(b) ==
  [setState(b, "half_open") EXCEPT !.successes = 0, !.resetTimeout = Fired]

recordFailure(b) ==
  LET c == [b EXCEPT !.failures = @ + 1, !.lastFailureTime = b.now,
                     !.onFailure = Append(@, b.failures + 1)]
  IN  IF c.failures >= c.failureThreshold
        THEN scheduleHalfOpen(setState(c, "open"))
        ELSE c

\* reset that leaves a pending recovery timer armed.
resetKeepsTimer(b) ==
  setState([b EXCEPT !.failures = 0, !.successes = 0,
                     !.lastFailureTime = 0], "closed")

reset(b) ==
  setState([b EXCEPT !.resetTimeout = NoTimer, !.failures = 0,
                     !.successes = 0, !.lastFailureTime = 0], "closed")

\* recordSuccess that forgets to clear the failure count while closed.
recordSuccessKeepsFailures(b) ==
  IF b.state = "half_open"
    THEN LET c == [b EXCEPT !.successes = @ + 1]
         IN  IF c.successes >= c.successThreshold THEN reset(c) ELSE c
    ELSE b

recordSuccess(b) ==
  IF b.state = "half_open"
    THEN LET c == [b EXCEPT !.successes = @ + 1]
         IN  IF c.successes >= c.successThreshold THEN reset(c) ELSE c
    ELSE IF b.state = "closed"
      THEN [b EXCEPT !.failures = 0]
      ELSE b

forceOpen(b) ==
  scheduleHalfOpen(setState([b EXCEPT !.failures = b.failureThreshold], "open"))

\* canPass that admits calls only while closed.
canPassClosedOnly(b) == b.state = "closed"

canPass(b) ==
  CASE b.state = "closed" -> TRUE
    [] b.state = "open" -> FALSE
    [] b.state = "half_open" -> TRUE
    [] OTHER -> TRUE

\* options.isFailure ?? (() => true); the custom predicate is the tests' one:
\* (err) => err instanceof Error && err.message !== 'ignore'.
isFailure(b, error) ==
  IF b.customIsFailure
    THEN error.kind = "Error" /\ error.message # "ignore"
    ELSE TRUE

\* execute up to its await (lines 189-201): refuse, or invoke the operation.
executeCall(b) ==
  IF ~canPass(b)
    THEN LET timeSinceLastFailure == b.now - b.lastFailureTime
             remainingTimeout == Max(0, b.resetTimeoutMs - timeSinceLastFailure)
         IN  [b EXCEPT !.out = CircuitOpenError(remainingTimeout, b.failures)]
    ELSE [b EXCEPT !.invoked = TRUE]

\* execute after its await (lines 202-212): the operation settled with result.
executeSettle(b, result) ==
  IF result.kind = "value"
    THEN [recordSuccess(b) EXCEPT !.out = result]
    ELSE LET c == IF result.kind = "Error" /\ isFailure(b, result)
                    THEN recordFailure(b) ELSE b
         IN  [c EXCEPT !.out = result]

----------------------------------------------------------------------------
\* The inputs the model draws from.
SignalConfigs == {"none", "idle", "aborted"}
Phases == {"processing"}
Messages == {Undefined, "Working"}
AbortReasons == {Undefined, "User cancelled"}
Updates == {MkUpdate("test", Undefined, Undefined, Undefined, FALSE),
            MkUpdate("test", Undefined, Undefined, Undefined, TRUE)}

\* A send may call enqueue only while the model's budget of calls lasts; on a
\* closed session every send is a no-op and stays possible.
CanSend == isClosed \/ enqueueCalls < MaxEnqueue

\* The metadata objects sendWithMetadata is given.
Metadatas == {JObj(<<JMember("step", JNum(1))>>)}

\* A breaker just created with the default configuration
\* (stream-config.ts:114-118, resetTimeoutMs in the model's time unit).
\* Backoff delays (stream-config.ts:133-146).  jitterFactor and the value
\* of Math.random() are fractions num/den; the delays are integers.
Frac(n, d) == [num |-> n, den |-> d]

Min(a, b) == IF a <= b THEN a ELSE b

RECURSIVE Pow(_, _)
Pow(base, exponent) ==
  IF exponent = 0 THEN 1 ELSE base * Pow(base, exponent - 1)

RetryConfig(maxRetries, initialDelayMs, maxDelayMs, backoffMultiplier, jitter, jitterFactor) ==
  [maxRetries |-> maxRetries, initialDelayMs |-> initialDelayMs,
   maxDelayMs |-> maxDelayMs, backoffMultiplier |-> backoffMultiplier,
   jitter |-> jitter, jitterFactor |-> jitterFactor]

\* min(initialDelayMs * backoffMultiplier^attempt, maxDelayMs)
cappedDelay(attempt, config) ==
  LET exponentialDelay ==
        config.initialDelayMs * Pow(config.backoffMultiplier, attempt)
  IN  Min(exponentialDelay, config.maxDelayMs)

\* calculateBackoffDelay that forgets the cap.
calculateBackoffDelayUncapped(attempt, config, random) ==
  config.initialDelayMs * Pow(config.backoffMultiplier, attempt)

\* random is what Math.random() returns on this call, in [0, 1).
calculateBackoffDelay(attempt, config, random) ==
  LET capped == cappedDelay(attempt, config)
  IN  IF config.jitter
        THEN LET \* capped * jitterFactor * random, as a fraction
                 jitterAmount ==
                   Frac(capped * config.jitterFactor.num * random.num,
                        config.jitterFactor.den * random.den)
             IN  \* Math.floor(capped + jitterAmount)
                 (capped * jitterAmount.den + jitterAmount.num)
                   \div jitterAmount.den
        ELSE capped

----------------------------------------------------------------------------
\* Error classification (part_006:15-46).  A message is the sequence of
\* its characters.
UpperCase ==
  <<"A", "B", "C", "D", "E", "F", "G", "H", "I", "J", "K", "L", "M",
    "N", "O", "P", "Q", "R", "S", "T", "U", "V", "W", "X", "Y", "Z">>
LowerCase ==
  <<"a", "b", "c", "d", "e", "f", "g", "h", "i", "j", "k", "l", "m",
    "n", "o", "p", "q", "r", "s", "t", "u", "v", "w", "x", "y", "z">>

LowerOf ==
  [c \in {UpperCase[k] : k \in 1..Len(UpperCase)} |->
     LowerCase[CHOOSE k \in 1..Len(UpperCase) : UpperCase[k] = c]]

toLowerCase(s) ==
  [i \in 1..Len(s) |-> IF s[i] \in DOMAIN LowerOf THEN LowerOf[s[i]] ELSE s[i]]

includes(s, pattern) ==
  \E i \in 1..(Len(s) - Len(pattern) + 1) :
    SubSeq(s, i, i + Len(pattern) - 1) = pattern

NETWORK_ERROR_PATTERNS ==
  { <<"n","e","t","w","o","r","k">>,
    <<"f","a","i","l","e","d"," ","t","o"," ","f","e","t","c","h">>,
    <<"l","o","a","d"," ","f","a","i","l","e","d">>,
    <<"e","r","r","_","n","e","t","w","o","r","k","_",
      "c","h","a","n","g","e","d">>,
    <<"n","e","t","w","o","r","k","e","r","r","o","r">>,
    <<"a","b","o","r","t","e","d">>,
    <<"t","i","m","e","o","u","t">>,
    <<"e","c","o","n","n","r","e","s","e","t">>,
    <<"e","c","o","n","n","r","e","f","u","s","e","d">>,
    <<"e","n","e","t","u","n","r","e","a","c","h">> }

\* What an operation settles with: a value, an Error (with its name and
\* message) or a rejection with a string.
Resolved(v) == [kind |-> "value", name |-> "", message |-> v]
NewError(name, message) ==
  [kind |-> "Error", name |-> name, message |-> message]
Rejected(v) == [kind |-> "string", name |-> "", message |-> v]
NoResult == [kind |-> "none", name |-> "", message |-> <<>>]

isNetworkError(error) ==
  IF error.kind # "Error" THEN FALSE
  ELSE LET message == toLowerCase(error.message)
       IN  \E pattern \in NETWORK_ERROR_PATTERNS : includes(message, pattern)

isCancellationError(error) ==
  IF error.kind # "Error" THEN FALSE
  ELSE LET message == toLowerCase(error.message)
       IN  \/ includes(message, <<"a","b","o","r","t","e","d">>)
           \/ error.name = "AbortError"

\* error instanceof Error ? error : new Error(String(error))
AsError(error) ==
  IF error.kind = "Error" THEN error ELSE NewError("Error", error.message)

\* new Error('Aborted'), the rejection of an aborted sleep.
SleepAborted == NewError("Error", <<"A","b","o","r","t","e","d">>)

\* One call slot of execute, withRetry or sleep before it is used.  outcome
\* is what the operation settled with last, failures how often it failed,
\* armed how many timers the sleep armed.
IdleCall ==
  [pc |-> "idle", signal |-> "none", invoked |-> 0, timer |-> FALSE,
   result |-> NoResult, onConnected |-> 0, onFailed |-> <<>>,
   onReconnecting |-> 0, lastEvent |-> [attempt |-> 0, delayMs |-> 0],
   outcome |-> NoResult]
IdleWithRetry ==
  [pc |-> "idle", signal |-> "none", shouldRetry |-> "undefined",
   attempt |-> 0, lastError |-> NoResult, invoked |-> 0, timer |-> FALSE,
   result |-> NoResult, onRetry |-> <<>>, outcome |-> NoResult,
   failures |-> 0]
IdleSleep ==
  [pc |-> "idle", signal |-> "none", timer |-> FALSE, result |-> NoResult,
   armed |-> 0]

\* The two places an execute call of the one manager can come from.
CallIds == {1, 2}

\* createReconnectionManager(options) has run; nothing else has.
RetryCreated(cfg) ==
  /\ retryConfig = cfg
  /\ managerState = [attempt |-> 0, maxAttempts |-> cfg.maxRetries,
                     nextDelayMs |-> cfg.initialDelayMs,
                     lastError |-> NoResult]
  /\ calls = [id \in CallIds |-> IdleCall]
  /\ wr = IdleWithRetry
  /\ sl = IdleSleep

DEFAULT_RETRY_CONFIG == RetryConfig(3, 1000, 30000, 2, TRUE, Frac(3, 10))

\* calculateBackoffDelay has not been called with this configuration yet.
BackoffUnused(cfg) ==
  backoff = [config |-> cfg, attempt |-> 0, random |-> Frac(0, 1),
             delay |-> 0, called |-> FALSE]

----------------------------------------------------------------------------
\* Abort reasons and rejection values of the timeout utilities.
NoReason == [kind |-> "undefined", type |-> "", timeoutMs |-> 0]

\* new TimeoutError(type, timeoutMs); the message is a function of the two.
TimeoutError(type, timeoutMs) ==
  [kind |-> "TimeoutError", type |-> type, timeoutMs |-> timeoutMs]

\* existing.abort('user cancelled') and existing.abort().
UserCancelled == [kind |-> "string", type |-> "user cancelled", timeoutMs |-> 0]
AbortErrorReason == [kind |-> "DOMException", type |-> "AbortError", timeoutMs |-> 0]

\* An AbortSignal that has not fired, and no signal given at all.
FreshSignal == [given |-> TRUE, aborted |-> FALSE, reason |-> NoReason]
NoSignal == [given |-> FALSE, aborted |-> FALSE, reason |-> NoReason]

\* A timer handle: null, or the id-th setTimeout of its owner.
NullTimeout == [id |-> 0, due |-> 0]

\* createIdleTimeout's closure before the initial touch().
NoIdleTimeout ==
  [timeoutMs |-> 0, timeout |-> NullTimeout, timers |-> {}, armed |-> 0]

\* No timeout utility has been called yet.  first, cleared, touchedAt,
\* fired, afterClear and lastAt are history: the first cause of an abort,
\* whether clear() was called, when touch() ran last, how often onTimeout
\* ran (and how often after a clear()), when the last chunk arrived.
TimeoutsUnused ==
  /\ toClock = 0
  /\ tc = [pc |-> "unused", timeoutMs |-> 0, existing |-> NoSignal,
           listener |-> FALSE, signal |-> FreshSignal, handed |-> "none",
           timeout |-> NullTimeout, timers |-> {}, armed |-> 0,
           createdAt |-> 0, cleared |-> FALSE, first |-> "none"]
  /\ idt = [pc |-> "unused", it |-> NoIdleTimeout, fired |-> 0,
            cleared |-> FALSE, afterClear |-> 0, touchedAt |-> 0]
  /\ rs = [pc |-> "unused", idleMs |-> 0, it |-> NoIdleTimeout,
           reader |-> "readable", cancel |-> <<>>, chunks |-> 0,
           result |-> NoReason, lastAt |-> 0]


----------------------------------------------------------------------------
\* The SSE codec: formatSSEMessage (sse-helpers.ts) and createSSEParser,
\* parseSSEStream (use-sse-stream.ts).
\* JSON.parse(text): ok is FALSE where JSON.parse throws a SyntaxError.
JSONparse(text) ==
  LET Fail == [ok |-> FALSE, v |-> JNull, next |-> 0]
      Done(value, next) == [ok |-> TRUE, v |-> value, next |-> next]
      At(i) == charAt(text, i)
      Word(i, n) == IF i + n - 1 <= Len(text) THEN SubSeq(text, i, i + n - 1)
                    ELSE ""
      IsDigit(c) == c # "" /\ \E d \in 1..10 : charAt(Digits, d) = c
      DigitOf(c) == (CHOOSE d \in 1..10 : charAt(Digits, d) = c) - 1
      RECURSIVE skip(_)
      skip(i) == IF At(i) \in Whitespace THEN skip(i + 1) ELSE i
      RECURSIVE parseDigits(_, _)
      parseDigits(i, n) ==
        IF IsDigit(At(i)) THEN parseDigits(i + 1, n * 10 + DigitOf(At(i)))
        ELSE Done(JNum(n), i)
      RECURSIVE parseChars(_, _)
      parseChars(i, s) ==
        CASE At(i) = "\"" -> Done(JStr(s), i + 1)
          [] At(i) = "\\" ->
               IF At(i + 1) \in {"\"", "\\"}
                 THEN parseChars(i + 2, s \o At(i + 1))
               ELSE IF At(i + 1) = "n" THEN parseChars(i + 2, s \o "\n")
               ELSE Fail
          [] At(i) \in {"", "\n", "\t", "\r"} -> Fail
          [] OTHER -> parseChars(i + 1, s \o At(i))
      RECURSIVE parseValue(_), parseElements(_, _), parseMembers(_, _)
      parseValue(start) ==
        LET i == skip(start)
        IN  CASE Word(i, 4) = "null" -> Done(JNull, i + 4)
              [] Word(i, 4) = "true" -> Done(JBool(TRUE), i + 4)
              [] Word(i, 5) = "false" -> Done(JBool(FALSE), i + 5)
              [] At(i) = "\"" -> parseChars(i + 1, "")
              [] IsDigit(At(i)) ->
                   IF At(i) = "0" /\ IsDigit(At(i + 1)) THEN Fail
                   ELSE parseDigits(i, 0)
              [] At(i) = "[" ->
                   IF At(skip(i + 1)) = "]"
                     THEN Done(JArr(<<>>), skip(i + 1) + 1)
                     ELSE parseElements(i + 1, <<>>)
              [] At(i) = "{" ->
                   IF At(skip(i + 1)) = "}"
                     THEN Done(JObj(<<>>), skip(i + 1) + 1)
                     ELSE parseMembers(i + 1, <<>>)
              [] OTHER -> Fail
      parseElements(start, elements) ==
        LET r == parseValue(start)
            after == skip(r.next)
        IN  IF ~r.ok THEN Fail
            ELSE IF At(after) = ","
              THEN parseElements(after + 1, Append(elements, r.v))
            ELSE IF At(after) = "]"
              THEN Done(JArr(Append(elements, r.v)), after + 1)
            ELSE Fail
      parseMembers(start, members) ==
        LET i == skip(start)
            key == IF At(i) = "\"" THEN parseChars(i + 1, "") ELSE Fail
            colon == skip(key.next)
            r == IF key.ok /\ At(colon) = ":" THEN parseValue(colon + 1)
                 ELSE Fail
            after == skip(r.next)
        IN  IF ~r.ok THEN Fail
            ELSE IF At(after) = ","
              THEN parseMembers(after + 1,
                                Append(members, JMember(key.v.s, r.v)))
            ELSE IF At(after) = "}"
              THEN Done(JObj(Append(members, JMember(key.v.s, r.v))),
                        after + 1)
            ELSE Fail
      top == parseValue(1)
  IN  IF top.ok /\ skip(top.next) = Len(text) + 1
        THEN [ok |-> TRUE, v |-> top.v]
        ELSE [ok |-> FALSE, v |-> JNull]

\* A formatSSEMessage that writes the event line before the retry line.
formatSSEMessageEventFirst(message) ==
  LET lines ==
        (IF message.id # <<>> THEN <<"id: " \o message.id[1]>> ELSE <<>>)
          \o (IF message.event # <<>> THEN <<"event: " \o message.event[1]>>
                                      ELSE <<>>)
          \o (IF message.retry # <<>>
                THEN <<"retry: " \o NumberToString(message.retry[1])>>
                ELSE <<>>)
          \o <<"data: " \o JSONstringify(message.data)>>
  IN  join(lines, "\n") \o "\n\n"

\* formatSSEMessage(message); an optional field is <<>> or <<value>>.
formatSSEMessage(message) ==
  LET lines ==
        (IF message.id # <<>> THEN <<"id: " \o message.id[1]>> ELSE <<>>)
          \o (IF message.retry # <<>>
                THEN <<"retry: " \o NumberToString(message.retry[1])>>
                ELSE <<>>)
          \o (IF message.event # <<>> THEN <<"event: " \o message.event[1]>>
                                      ELSE <<>>)
          \o <<"data: " \o JSONstringify(message.data)>>
  IN  join(lines, "\n") \o "\n\n"

\* The payload handed on whole.
rawLineWhole(payload) == payload

\* payload.slice(0, 120)
RawLineLimit == 120
rawLine(payload) ==
  IF Len(payload) > RawLineLimit THEN SubSeq(payload, 1, RawLineLimit)
  ELSE payload

\* createSSEParser(options): the closure, with the calls its callbacks got
\* (onError: the raw line it was given).  throwsOn are the values onMessage
\* throws for; onError returns normally.  thrown holds what a parse call let
\* escape to its caller, <<>> while nothing escaped.
createSSEParser(hasOnError, throwsOn) ==
  [buffer |-> "", onMessage |-> <<>>, onError |-> <<>>,
   hasOnError |-> hasOnError, throwsOn |-> throwsOn, thrown |-> <<>>]

\* A loop body that calls onMessage after the try block: what onMessage
\* throws escapes from parse.
parseLineCallsOutsideTry(p, line) ==
  IF startsWith(line, ":") THEN p
  ELSE IF startsWith(line, "data: ")
    THEN LET payload == slice(line, 6)
             data == JSONparse(payload)
         IN  IF ~data.ok
               THEN IF p.hasOnError
                      THEN [p EXCEPT !.onError = Append(@, rawLine(payload))]
                      ELSE p
             ELSE IF data.v \in p.throwsOn
               THEN [p EXCEPT !.onMessage = Append(@, data.v),
                              !.thrown = <<data.v>>]
             ELSE [p EXCEPT !.onMessage = Append(@, data.v)]
  ELSE p

\* The body of parse's inner loop for one line.
parseLine(p, line) ==
  IF startsWith(line, ":") THEN p
  ELSE IF startsWith(line, "data: ")
    THEN LET payload == slice(line, 6)
             data == JSONparse(payload)
             called == IF data.ok
                         THEN [p EXCEPT !.onMessage = Append(@, data.v)]
                         ELSE p
         IN  IF data.ok /\ data.v \notin p.throwsOn THEN called
             ELSE IF p.hasOnError
               THEN [called EXCEPT !.onError = Append(@, rawLine(payload))]
             ELSE called
  ELSE p

\* for (const line of trimmed.split('\n')) ...
RECURSIVE parseLines(_, _)
parseLines(p, lines) ==
  IF lines = <<>> \/ p.thrown # <<>> THEN p
  ELSE parseLines(parseLine(p, Head(lines)), Tail(lines))

\* The body of parse's outer loop for one complete message.
parseMessage(p, message) ==
  IF trim(message) = "" THEN p
  ELSE parseLines(p, split(trim(message), "\n"))

\* for (const message of messages) ...
RECURSIVE parseMessages(_, _)
parseMessages(p, messages) ==
  IF messages = <<>> \/ p.thrown # <<>> THEN p
  ELSE parseMessages(parseMessage(p, Head(messages)), Tail(messages))

\* A parse that handles every line as soon as its line break arrives.
parseLineByLine(p, chunk) ==
  LET lines == split(p.buffer \o chunk, "\n")
  IN  parseLines([p EXCEPT !.buffer = lines[Len(lines)]],
                 SubSeq(lines, 1, Len(lines) - 1))

\* A parse that handles only the first complete frame of the buffer.
parseFirstFrameOnly(p, chunk) ==
  LET messages == split(p.buffer \o chunk, "\n\n")
      kept == [p EXCEPT !.buffer = messages[Len(messages)]]
  IN  IF Len(messages) = 1 THEN kept ELSE parseMessage(kept, messages[1])

\* parse(chunk)
parse(p, chunk) ==
  LET messages == split(p.buffer \o chunk, "\n\n")
  IN  parseMessages([p EXCEPT !.buffer = messages[Len(messages)]],
                    SubSeq(messages, 1, Len(messages) - 1))

\* parsed[key] of a parsed value that is not null: <<>> for undefined.
property(parsed, key) ==
  IF parsed.t # "object" THEN <<>>
  ELSE LET hits == {i \in 1..Len(parsed.a) : parsed.a[i].k = key}
       IN  IF hits = {} THEN <<>>
           ELSE <<parsed.a[CHOOSE i \in hits : \A j \in hits : j <= i].v>>

\* JavaScript's truthiness of an optional value.
truthy(optional) ==
  /\ optional # <<>>
  /\ CASE optional[1].t = "null" -> FALSE
       [] optional[1].t = "boolean" -> optional[1].b
       [] optional[1].t = "number" -> optional[1].n # 0
       [] optional[1].t = "string" -> optional[1].s # ""
       [] OTHER -> TRUE

\* new SSEStreamError(errorMessage, parsed)
SSEStreamError(errorMessage, payload) ==
  [kind |-> "SSEStreamError", message |-> errorMessage, payload |-> payload]

\* parseSSEStream up to its first await of reader.read().  have are the
\* handlers given, throws those that throw when called; calls are the
\* handler calls made, each with the number of the frame (counted by the
\* blank lines seen) whose line made it.
parseSSEStream(have, throws) ==
  [pc |-> "reading", buffer |-> "", currentEvent |-> "", finalData |-> <<>>,
   have |-> have, throws |-> throws, calls |-> <<>>, frame |-> 1,
   thrown |-> <<>>, released |-> FALSE]

\* handlers.onX?.(...args): the call, and whether it threw.
callHandler(st, handler, args) ==
  IF handler \notin st.have THEN [st |-> st, threw |-> FALSE]
  ELSE [st |-> [st EXCEPT !.calls =
                  Append(@, [handler |-> handler, args |-> args,
                             frame |-> st.frame])],
        threw |-> handler \in st.throws]

\* The try block for one parsed data line; what it throws is caught and
\* skipped unless it is an SSEStreamError.
dispatch(st, parsed) ==
  LET resetEvent(s) == [s EXCEPT !.currentEvent = ""]
      after(c) == IF c.threw THEN c.st ELSE resetEvent(c.st)
  IN  CASE st.currentEvent = "start" ->
             after(callHandler(st, "onStart", <<parsed>>))
        [] st.currentEvent = "delta" ->
             IF parsed.t = "null" THEN st
             ELSE IF truthy(property(parsed, "text"))
               THEN after(callHandler(st, "onDelta",
                                      property(parsed, "text")))
             ELSE resetEvent(st)
        [] st.currentEvent = "done" ->
             after(callHandler([st EXCEPT !.finalData = <<parsed>>],
                               "onDone", <<parsed>>))
        [] st.currentEvent = "error" ->
             IF parsed.t = "null" THEN st
             ELSE LET errorMessage ==
                        IF truthy(property(parsed, "error"))
                          THEN property(parsed, "error")[1]
                          ELSE JStr("Unknown error")
                      c == callHandler(st, "onError", <<errorMessage>>)
                  IN  IF c.threw THEN c.st
                      ELSE [c.st EXCEPT !.thrown =
                              <<SSEStreamError(errorMessage, parsed)>>]
        [] OTHER ->
             IF parsed.t = "null" THEN st
             ELSE IF truthy(property(parsed, "phase"))
                       /\ "onProgress" \in st.have
               THEN after(callHandler(st, "onProgress",
                                      property(parsed, "phase")
                                        \o property(parsed, "message")))
             ELSE resetEvent(st)

\* The body of the line loop for one line.
streamLine(st, line) ==
  IF startsWith(line, "event: ")
    THEN [st EXCEPT !.currentEvent = trim(slice(line, 7))]
  ELSE IF startsWith(line, ":") THEN st
  ELSE IF ~startsWith(line, "data: ")
    THEN [st EXCEPT !.frame = IF line = "" THEN @ + 1 ELSE @]
  ELSE LET data == slice(line, 6)
           parsed == JSONparse(data)
       IN  IF trim(data) = "" THEN st
           ELSE IF ~parsed.ok THEN st
           ELSE dispatch(st, parsed.v)

\* reader.read() resolved with a chunk: the lines it completes are handled;
\* an SSEStreamError leaves through finally { reader.releaseLock() }.
streamChunk(st, chunk) ==
  LET buffer == st.buffer \o chunk
      lines == split(buffer, "\n")
      RECURSIVE forLines(_, _)
      forLines(s, rest) ==
        IF rest = <<>> \/ s.thrown # <<>> THEN s
        ELSE forLines(streamLine(s, Head(rest)), Tail(rest))
      looped == forLines([st EXCEPT !.buffer = lines[Len(lines)]],
                         SubSeq(lines, 1, Len(lines) - 1))
  IN  IF looped.thrown # <<>>
        THEN [looped EXCEPT !.pc = "rejected", !.released = TRUE]
        ELSE looped

\* reader.read() resolved with done: the call returns finalData.
streamDone(st) == [st EXCEPT !.pc = "resolved", !.released = TRUE]

\* reader.read() rejected: the error leaves through the finally block.
streamFails(st, error) ==
  [st EXCEPT !.pc = "rejected", !.thrown = <<error>>, !.released = TRUE]

\* Neither createSSEParser nor parseSSEStream has been called yet.  wire is
\* what the server side wrote (its frames and their text) and how many
\* characters of it have reached the client.
CodecUnused ==
  /\ wire = [frames |-> <<>>, text |-> "", fed |-> 0]
  /\ parser = [pc |-> "unused", p |-> createSSEParser(FALSE, {})]
  /\ sse = [parseSSEStream({}, {}) EXCEPT !.pc = "unused"]

----------------------------------------------------------------------------
\* useSSEStream (use-sse-stream.ts:199-398).  undefined is <<>> and a value v
\* is <<v>>.  A result is a JSON value, so that a null result (<<JNull>>) is
\* told from a missing one: the code tests it with !== undefined.  Messages
\* and errors are read with ?? and ||, which take null and undefined alike,
\* so both are <<>> there; error messages are sequences of characters.
initialPhase == "idle"
completePhase == "complete"
errorPhase == "error"
reconnectingPhase == "reconnecting"

\* createReducer's initialState.
initialState ==
  [phase |-> initialPhase, phaseMessage |-> <<>>, result |-> <<JNull>>,
   error |-> <<>>, isStreaming |-> FALSE, reconnectionInfo |-> <<>>]

\* The actions dispatched to the reducer.
StreamAction(type) ==
  [type |-> type, phase |-> "", message |-> <<>>, result |-> <<>>,
   error |-> <<>>, info |-> <<>>]

reducer(st, action) ==
  CASE action.type = "START" ->
         [initialState EXCEPT !.phase = action.phase, !.isStreaming = TRUE]
    [] action.type = "UPDATE_PHASE" ->
         [st EXCEPT !.phase = action.phase,
                    !.phaseMessage = IF action.message # <<>>
                                       THEN action.message ELSE @,
                    !.reconnectionInfo = <<>>]
    [] action.type = "SET_RECONNECTION" ->
         [st EXCEPT !.reconnectionInfo = action.info]
    [] action.type = "SET_RESULT" ->
         [st EXCEPT !.result = action.result, !.isStreaming = FALSE]
    [] action.type = "SET_ERROR" ->
         [st EXCEPT !.error = action.error, !.isStreaming = FALSE]
    [] action.type = "CANCEL" -> [st EXCEPT !.isStreaming = FALSE]
    [] action.type = "RESET" -> initialState
    [] OTHER -> st

\* One start() call: where it is ("running" while an attempt of its operation
\* runs, "sleeping" while its reconnection manager waits to retry), whether
\* its controller's signal is aborted, its manager's state.attempt, the
\* finalResult of the running attempt, and whether its own onMessage has
\* dispatched SET_RESULT ("completed") or SET_ERROR ("failed").
NewRun ==
  [pc |-> "running", aborted |-> FALSE, attempt |-> 0, finalResult |-> <<>>,
   ended |-> ""]

\* The hook: the reducer's state, abortControllerRef.current (0 for null,
\* else the start() call that made the controller) and the start() calls.
HookCur ==
  [state |-> streamState, ref |-> abortControllerRef, runs |-> runs]

HookBecomes(h) ==
  /\ streamState' = h.state
  /\ abortControllerRef' = h.ref
  /\ runs' = h.runs

\* abortControllerRef.current?.abort()
abortCurrent(h) ==
  IF h.ref # 0 THEN [h EXCEPT !.runs[h.ref].aborted = TRUE] ELSE h

\* abortControllerRef.current = null, if it still holds this call's controller.
startFinally(h, k) ==
  IF h.ref = k THEN [h EXCEPT !.ref = 0] ELSE h

\* start(input) up to its first await (lines 237-270).
start(h) ==
  LET a == abortCurrent(h)
      action == [StreamAction("START") EXCEPT !.phase = initialPhase]
  IN  [a EXCEPT !.ref = Len(a.runs) + 1,
                !.state = reducer(@, action),
                !.runs = Append(@, NewRun)]

\* The onReconnecting callback of start call k (lines 247-262), called with
\* event by the manager, which then sleeps.
onReconnecting(h, k, event) ==
  LET phased == reducer(h.state, [StreamAction("UPDATE_PHASE")
                                    EXCEPT !.phase = reconnectingPhase])
      info == [attempt |-> event.attempt, maxAttempts |-> event.maxAttempts,
               retryDelayMs |-> event.delayMs]
  IN  [h EXCEPT !.state = reducer(phased, [StreamAction("SET_RECONNECTION")
                                             EXCEPT !.info = <<info>>]),
                !.runs[k].pc = "sleeping"]

\* The operation of start call k is run again after the manager's sleep
\* (part_006:127-128, use-sse-stream.ts:266-291): state.attempt++, and the new
\* attempt has a reader, a parser and a finalResult of its own.
operation(h, k) ==
  [h EXCEPT !.runs[k].pc = "running",
            !.runs[k].attempt = @ + 1,
            !.runs[k].finalResult = <<>>]

\* An update the server sends.
Update(phase, message, result, error) ==
  [phase |-> phase, message |-> message, result |-> result, error |-> error]

UnknownError == <<"U","n","k","n","o","w","n"," ","e","r","r","o","r">>

\* The onMessage callback of start call k (lines 297-323); what it throws
\* at the end of the error branch is caught by the parser.
onMessage(h, k, update) ==
  LET phased == reducer(h.state,
                        [StreamAction("UPDATE_PHASE")
                           EXCEPT !.phase = update.phase,
                                  !.message = update.message])
      complete == update.phase = completePhase /\ update.result # <<>>
      completed == IF complete
                     THEN reducer(phased, [StreamAction("SET_RESULT")
                                             EXCEPT !.result = update.result])
                     ELSE phased
      isError == update.phase = errorPhase
      error == IF update.error # <<>> /\ update.error # <<(<<>>)>>
                 THEN update.error ELSE <<UnknownError>>
      failed == IF isError
                  THEN reducer(completed, [StreamAction("SET_ERROR")
                                             EXCEPT !.error = error])
                  ELSE completed
  IN  [h EXCEPT !.state = failed,
                !.runs[k].finalResult = IF complete THEN update.result ELSE @,
                !.runs[k].ended = IF isError THEN "failed"
                                  ELSE IF complete THEN "completed" ELSE @]

\* start call k after reconnect.execute resolved (lines 325-336, 345-349).
startReturn(h, k) ==
  startFinally([h EXCEPT !.runs[k].pc = "resolved"], k)

\* start call k after reconnect.execute rejected with error (lines 337-349).
startCatch(h, k, error) ==
  IF isCancellationError(error) \/ h.runs[k].aborted
    THEN startFinally([h EXCEPT !.state = reducer(@, StreamAction("CANCEL")),
                                !.runs[k].pc = "cancelled"], k)
    ELSE LET errorMessage == IF error.kind = "Error" THEN error.message
                             ELSE <<"S","t","r","e","a","m"," ",
                                    "f","a","i","l","e","d">>
         IN  startFinally(
               [h EXCEPT !.state = reducer(@, [StreamAction("SET_ERROR")
                                                 EXCEPT !.error =
                                                   <<errorMessage>>]),
                         !.runs[k].pc = "rejected"], k)

\* cancel() (lines 369-373)
cancel(h) ==
  LET a == abortCurrent(h)
  IN  [a EXCEPT !.ref = 0, !.state = reducer(@, StreamAction("CANCEL"))]

\* reset() of the hook (lines 375-379)
resetStream(h) ==
  LET a == abortCurrent(h)
  IN  [a EXCEPT !.ref = 0, !.state = reducer(@, StreamAction("RESET"))]

\* The hook as first rendered: no start() call yet.
HookUnused ==
  /\ streamState = [initialState EXCEPT !.phase = initialPhase]
  /\ abortControllerRef = 0
  /\ runs = <<>>

----------------------------------------------------------------------------
\* The names the application uses for shared breakers.
RegNames == {"a", "b"}

NoHandle == [name |-> "", due |-> 0]
NoEntry == [held |-> FALSE, breaker |-> 0, lastAccess |-> 0,
            cleanupTimeout |-> NoHandle]
NeverSeen == [inst |-> 0, access |-> 0, ttl |-> 0, gone |-> FALSE]

\* The module-level registry before any call.
RegCreated ==
  /\ globalBreakers = [n \in RegNames |-> NoEntry]
  /\ cleanupTimers = {}
  /\ created = 0
  /\ regNow = 0
  /\ regLast = [op |-> "load", name |-> "", returned |-> 0]
  /\ regSeen = [n \in RegNames |-> NeverSeen]

CbCreated(ft, st, rt, custom) ==
  /\ state = "closed"
  /\ failures = 0
  /\ successes = 0
  /\ lastFailureTime = 0
  /\ resetTimeout = NoTimer
  /\ failureThreshold = ft
  /\ successThreshold = st
  /\ resetTimeoutMs = rt
  /\ customIsFailure = custom
  /\ now = 0
  /\ inflight = 0
  /\ cbLast = [op |-> "create", given |-> Nothing, out |-> Nothing,
               invoked |-> FALSE, onFailure |-> <<>>,
               onStateChange |-> <<>>]
  /\ openedAt = 0
  /\ consec = 0
  /\ hoSucc = 0

\* A session just constructed around a readable controller.
OrchCreated(sig, hb) ==
    LET s == Constructor(sig, hb) IN
      /\ isClosed = s.isClosed
      /\ isAborted = s.isAborted
      /\ heartbeatInterval = s.heartbeatInterval
      /\ lastError = s.lastError
      /\ abortHandler = s.abortHandler
      /\ bytesSent = s.bytesSent
      /\ heartbeatEnabled = s.heartbeatEnabled
      /\ signal = s.signal
      /\ controller = s.controller
      /\ sink = s.sink
      /\ enqueueCalls = s.enqueueCalls
      /\ hooks = s.hooks
      /\ thrown = s.thrown
      /\ lastOp = "constructor"
      /\ closeCalled = FALSE
      /\ abortCalled = FALSE

OrchInit ==
  /\ \E sig \in SignalConfigs, hb \in BOOLEAN : OrchCreated(sig, hb)
  /\ CbCreated(1, 1, 1, FALSE)
  /\ RegCreated
  /\ RetryCreated(DEFAULT_RETRY_CONFIG)
  /\ BackoffUnused(DEFAULT_RETRY_CONFIG)
  /\ TimeoutsUnused
  /\ CodecUnused
  /\ HookUnused

\* One call of an orchestrator method by the application.
Call(op, s) ==
  /\ Becomes(s)
  /\ lastOp' = op
  /\ closeCalled' = (closeCalled \/ op = "close")
  /\ abortCalled' = (abortCalled \/ op = "abort")
  /\ UNCHANGED <<cbVars, regVars, retryVars, backoff, timeoutVars,
               codecVars, hookVars>>

SendUpdateOp ==
  /\ CanSend
  /\ \E u \in Updates : Call("sendUpdate", sendUpdate(Cur, u))

SendProgressOp ==
  /\ CanSend
  /\ \E ph \in Phases, m \in Messages : Call("sendProgress", sendProgress(Cur, ph, m))

SendResultOp ==
  /\ CanSend
  /\ Call("sendResult", sendResult(Cur, "ok"))

SendErrorOp ==
  /\ CanSend
  /\ Call("sendError", sendError(Cur, "boom"))

SendWithMetadataOp ==
  /\ CanSend
  /\ \E ph \in Phases, metadata \in Metadatas :
       Call("sendWithMetadata", sendWithMetadata(Cur, ph, metadata, "Working"))

SendEventOp ==
  /\ CanSend
  /\ \E circular \in BOOLEAN : Call("sendEvent", sendEvent(Cur, "delta", "x", circular))

StartHeartbeatOp == Call("startHeartbeat", startHeartbeat(Cur))

StopHeartbeatOp == Call("stopHeartbeat", stopHeartbeat(Cur))

\* The interval timer fires: only while the handle is set.
HeartbeatTickOp ==
  /\ heartbeatInterval
  /\ CanSend
  /\ Call("heartbeat", heartbeatTick(Cur))

CloseOp == Call("close", close(Cur))

AbortOp == \E r \in AbortReasons : Call("abort", abort(Cur, r))

\* The owner of the external signal aborts it (an AbortSignal fires once).
SignalAbortOp ==
  /\ signal = "idle"
  /\ Call("signal", signalAbort(Cur))

\* The consumer of the ReadableStream cancels it (the client disconnected):
\* from then on controller.enqueue and controller.close throw.
ControllerCancelled ==
  /\ controller = "readable"
  /\ Call("cancelled", [Cur EXCEPT !.controller = "closed"])

OrchNext ==
  \/ SendUpdateOp
  \/ SendProgressOp
  \/ SendResultOp
  \/ SendErrorOp
  \/ SendWithMetadataOp
  \/ SendEventOp
  \/ StartHeartbeatOp
  \/ StopHeartbeatOp
  \/ HeartbeatTickOp
  \/ CloseOp
  \/ AbortOp
  \/ SignalAbortOp
  \/ ControllerCancelled

OrchSpec == OrchInit /\ [][OrchNext]_vars
----------------------------------------------------------------------------
\* The circuit breaker's actions.
MaxFailureThreshold == 2
MaxSuccessThreshold == 2
MaxResetTimeoutMs == 2
MaxInflight == 2
MaxTime == 4

\* What a wrapped operation can settle with.
Settlements == {Value("success"), ErrorObj("fail"), ErrorObj("ignore"),
                NonError("fail")}

\* A rejection the breaker is meant to count: an Error the predicate accepts.
Counted(result) ==
  result.kind = "Error" /\ (customIsFailure => result.message # "ignore")

CbInit ==
  /\ OrchCreated("none", TRUE)
  /\ \E ft \in 1..MaxFailureThreshold, st \in 1..MaxSuccessThreshold,
        rt \in 1..MaxResetTimeoutMs, custom \in BOOLEAN :
       CbCreated(ft, st, rt, custom)
  /\ RegCreated
  /\ RetryCreated(DEFAULT_RETRY_CONFIG)
  /\ BackoffUnused(DEFAULT_RETRY_CONFIG)
  /\ TimeoutsUnused
  /\ CodecUnused
  /\ HookUnused

\* One step of the breaker: b is the closure after it.
CbStep(op, given, b) ==
  /\ CbBecomes(b)
  /\ cbLast' = [op |-> op, given |-> given, out |-> b.out,
                invoked |-> b.invoked, onFailure |-> b.onFailure,
                onStateChange |-> b.onStateChange]
  /\ openedAt' = IF (b.state = "open" /\ state # "open") \/ op = "forceOpen"
                   THEN now ELSE openedAt
  /\ consec' = IF op = "reset" \/ (op = "settle" /\ given.kind = "value") THEN 0
               ELSE IF op = "settle" /\ Counted(given) THEN consec + 1
               ELSE consec
  /\ hoSucc' = IF b.state = "half_open" /\ state # "half_open" THEN 0
               ELSE IF op = "settle" /\ given.kind = "value" /\ state = "half_open"
                 THEN hoSucc + 1
               ELSE hoSucc
  /\ UNCHANGED <<oVars, regVars, retryVars, backoff, timeoutVars,
               codecVars, hookVars>>

\* breaker.execute(operation) is called.
ExecuteCall ==
  /\ state = "open" \/ inflight < MaxInflight
  /\ LET b == executeCall(CbCur) IN
       /\ CbStep("execute", Nothing, b)
       /\ inflight' = IF b.invoked THEN inflight + 1 ELSE inflight

\* An operation that execute awaits settles.
ExecuteSettle ==
  /\ inflight > 0
  /\ \E result \in Settlements :
       /\ CbStep("settle", result, executeSettle(CbCur, result))
       /\ inflight' = inflight - 1

ResetOp ==
  /\ CbStep("reset", Nothing, reset(CbCur))
  /\ UNCHANGED inflight

ForceOpenOp ==
  /\ CbStep("forceOpen", Nothing, forceOpen(CbCur))
  /\ UNCHANGED inflight

\* The recovery timer is due: its callback runs.
HalfOpenTimerFires ==
  /\ resetTimeout.kind = "pending"
  /\ resetTimeout.due <= now
  /\ CbStep("timer", Nothing, halfOpenTimer(CbCur))
  /\ UNCHANGED inflight

\* Time passes; a due timer fires before the clock moves on.
Tick ==
  /\ now < MaxTime
  /\ ~(resetTimeout.kind = "pending" /\ resetTimeout.due <= now)
  /\ CbStep("tick", Nothing, [CbCur EXCEPT !.now = @ + 1])
  /\ UNCHANGED inflight

CbNext ==
  \/ ExecuteCall
  \/ ExecuteSettle
  \/ ResetOp
  \/ ForceOpenOp
  \/ HalfOpenTimerFires
  \/ Tick

CbSpec == CbInit /\ [][CbNext]_vars
----------------------------------------------------------------------------
\* The shared breaker registry (part_005:229-325).  The module-level Map
\* and the pending eviction timers are gathered in one record; returned is
\* the breaker instance the call gave back (0: none).  An instance is known
\* by the order in which createCircuitBreaker made it.
DEFAULT_BREAKER_TTL_MS == 5 * 60 * 1000

MaxTtlMs == 2       \* largest ttlMs option
MaxCreated == 3     \* breakers created in one run
MaxRegTime == 4     \* how far the registry's clock runs

RegCur ==
  [globalBreakers |-> globalBreakers, cleanupTimers |-> cleanupTimers,
   created |-> created, now |-> regNow, returned |-> 0]

RegBecomes(r) ==
  /\ globalBreakers' = r.globalBreakers
  /\ cleanupTimers' = r.cleanupTimers
  /\ created' = r.created
  /\ regNow' = r.now

\* options?.ttlMs: given or not.
NoTtl == [hasTtl |-> FALSE, ttlMs |-> 0]
Ttl(ms) == [hasTtl |-> TRUE, ttlMs |-> ms]

TimeoutHandle(r, name, ttlMs) == [name |-> name, due |-> r.now + ttlMs]

clearTimeout(r, handle) == [r EXCEPT !.cleanupTimers = @ \ {handle}]

scheduleCleanup(r, name, ttlMs) ==
  [r EXCEPT !.cleanupTimers = @ \cup {TimeoutHandle(r, name, ttlMs)}]

\* The callback scheduleCleanup arms.
cleanupCallback(r, name) == [r EXCEPT !.globalBreakers[name] = NoEntry]

getSharedCircuitBreaker(r, name, options) ==
  LET ttlMs == IF options.hasTtl THEN options.ttlMs
                                 ELSE DEFAULT_BREAKER_TTL_MS
      entry == r.globalBreakers[name]
  IN  IF entry.held
        THEN LET c == scheduleCleanup(clearTimeout(r, entry.cleanupTimeout),
                                      name, ttlMs)
             IN  [c EXCEPT !.globalBreakers[name] =
                             [entry EXCEPT !.lastAccess = r.now,
                                           !.cleanupTimeout =
                                              TimeoutHandle(r, name, ttlMs)],
                           !.returned = entry.breaker]
        ELSE LET breaker == r.created + 1
                 c == scheduleCleanup([r EXCEPT !.created = breaker],
                                      name, ttlMs)
             IN  [c EXCEPT !.globalBreakers[name] =
                             [held |-> TRUE, breaker |-> breaker,
                              lastAccess |-> r.now,
                              cleanupTimeout |->
                                 TimeoutHandle(r, name, ttlMs)],
                           !.returned = breaker]

\* breaker.reset() touches the breaker only, not the registry.
resetSharedCircuitBreaker(r, name) == r

\* removeSharedCircuitBreaker that leaves the eviction timer armed.
removeSharedKeepsTimer(r, name) ==
  [r EXCEPT !.globalBreakers[name] = NoEntry]

removeSharedCircuitBreaker(r, name) ==
  LET entry == r.globalBreakers[name]
      c == IF entry.held THEN clearTimeout(r, entry.cleanupTimeout) ELSE r
  IN  [c EXCEPT !.globalBreakers[name] = NoEntry]

getSharedCircuitBreakerCount(r) ==
  Cardinality({n \in RegNames : r.globalBreakers[n].held})

clearAllSharedCircuitBreakers(r) ==
  [r EXCEPT !.cleanupTimers =
              @ \ {r.globalBreakers[n].cleanupTimeout :
                     n \in {m \in RegNames : r.globalBreakers[m].held}},
            !.globalBreakers = [n \in RegNames |-> NoEntry]]

----------------------------------------------------------------------------
\* The registry's actions.
TtlOptions == {NoTtl} \cup {Ttl(ms) : ms \in 0..MaxTtlMs}

RegInit ==
  /\ OrchCreated("none", TRUE)
  /\ CbCreated(1, 1, 1, FALSE)
  /\ RegCreated
  /\ RetryCreated(DEFAULT_RETRY_CONFIG)
  /\ BackoffUnused(DEFAULT_RETRY_CONFIG)
  /\ TimeoutsUnused
  /\ CodecUnused
  /\ HookUnused

\* The time to live a lookup with these options asks for.
TtlOf(options) ==
  IF options.hasTtl THEN options.ttlMs ELSE DEFAULT_BREAKER_TTL_MS

\* One step of the registry: r is the registry after it, gone the names
\* whose entry this step removed, ttl the time to live a lookup asked for.
RegStep(op, name, r, gone, ttl) ==
  /\ RegBecomes(r)
  /\ regLast' = [op |-> op, name |-> name, returned |-> r.returned]
  /\ regSeen' = [n \in RegNames |->
                   IF op = "get" /\ n = name
                     THEN [inst |-> r.returned, access |-> regNow,
                           ttl |-> ttl,
                           gone |-> FALSE]
                     ELSE IF n \in gone THEN [regSeen[n] EXCEPT !.gone = TRUE]
                                        ELSE regSeen[n]]
  /\ UNCHANGED <<oVars, cbVars, retryVars, backoff, timeoutVars,
               codecVars, hookVars>>

GetSharedOp ==
  \E name \in RegNames, options \in TtlOptions :
    /\ globalBreakers[name].held \/ created < MaxCreated
    /\ RegStep("get", name, getSharedCircuitBreaker(RegCur, name, options), {},
            TtlOf(options))

ResetSharedOp ==
  \E name \in RegNames :
    RegStep("reset", name, resetSharedCircuitBreaker(RegCur, name), {}, 0)

RemoveSharedOp ==
  \E name \in RegNames :
    RegStep("remove", name, removeSharedCircuitBreaker(RegCur, name), {name},
            0)

ClearAllSharedOp ==
  RegStep("clearAll", "", clearAllSharedCircuitBreakers(RegCur), RegNames, 0)

\* An eviction timer is due: its callback runs.
CleanupTimerFires ==
  \E handle \in cleanupTimers :
    /\ handle.due <= regNow
    /\ RegStep("cleanup", handle.name,
               cleanupCallback(clearTimeout(RegCur, handle), handle.name),
               {handle.name}, 0)

\* Time passes; a due timer fires before the clock moves on.
RegTick ==
  /\ regNow < MaxRegTime
  /\ \A handle \in cleanupTimers : handle.due > regNow
  /\ RegStep("tick", "", [RegCur EXCEPT !.now = @ + 1], {}, 0)

RegNext ==
  \/ GetSharedOp
  \/ ResetSharedOp
  \/ RemoveSharedOp
  \/ ClearAllSharedOp
  \/ CleanupTimerFires
  \/ RegTick

RegSpec == RegInit /\ [][RegNext]_vars
----------------------------------------------------------------------------
\* The reconnection manager, withRetry and sleep (part_006).  An async
\* function is cut at its awaits: each operator below runs one stretch of
\* synchronous code.  A manager step works on the record m of the closure's
\* config and state and of the execute call that is running.
MaxRetries == 2            \* largest config.maxRetries
MaxRandom == 2             \* Math.random() is one of 0/n .. (n-1)/n
RetryInitialDelayMs == 1   \* config.initialDelayMs of the retry runs
RetryMaxDelayMs == 3       \* config.maxDelayMs of the retry runs
RetryBackoffMultiplier == 2 \* config.backoffMultiplier of the retry runs
MaxInvokedAtReset == 2     \* invocations after which reset() is not called

RmCur(id) ==
  [config |-> retryConfig, state |-> managerState, call |-> calls[id]]

RmBecomes(id, m) ==
  /\ managerState' = m.state
  /\ calls' = [calls EXCEPT ![id] = m.call]

\* sleep(ms, signal) up to the return of the promise: rejected at once, or
\* pending with its timer armed.
sleep(ms, sig) ==
  IF sig = "aborted"
    THEN [timer |-> FALSE, settled |-> SleepAborted]
    ELSE [timer |-> TRUE, settled |-> NoResult]

\* The 'abort' listener sleep registers, for a sleep that is pending.
sleepAbortListener(call) ==
  [call EXCEPT !.timer = FALSE, !.pc = "rejected", !.result = SleepAborted]

\* A sleep whose abort listener rejects but leaves the timer armed.
signalAbortKeepsTimer(call) ==
  LET c == [call EXCEPT !.signal = "aborted"]
  IN  IF call.pc = "sleep"
        THEN [c EXCEPT !.pc = "rejected", !.result = SleepAborted]
        ELSE c

\* controller.abort() on the signal given to a call.
signalAbortDuring(call) ==
  LET c == [call EXCEPT !.signal = "aborted"]
  IN  IF call.pc = "sleep" THEN sleepAbortListener(c) ELSE c

managerReset(m) ==
  [m EXCEPT !.state = [attempt |-> 0, maxAttempts |-> m.config.maxRetries,
                       nextDelayMs |-> m.config.initialDelayMs,
                       lastError |-> NoResult]]

managerShouldRetry(m, error) ==
  isNetworkError(error) /\ m.state.attempt < m.config.maxRetries

getDelay(m, random) == calculateBackoffDelay(m.state.attempt, m.config, random)

\* await operation(signal): the operation is invoked.
invokeOperation(m) ==
  [m EXCEPT !.call.invoked = @ + 1, !.call.pc = "operation"]

\* throw error
managerReject(m, error) ==
  [m EXCEPT !.call.pc = "rejected", !.call.result = error]

\* waitForRetry up to `await sleep(delay, signal)`.
waitForRetry(m, random) ==
  LET delay == getDelay(m, random)
      n == [m EXCEPT !.state.nextDelayMs = delay,
                     !.call.onReconnecting = @ + 1,
                     !.call.lastEvent = [attempt |-> m.state.attempt + 1,
                                         delayMs |-> delay]]
      s == sleep(delay, n.call.signal)
  IN  IF s.settled # NoResult
        THEN managerReject(n, s.settled)
        ELSE [n EXCEPT !.call.pc = "sleep", !.call.timer = s.timer]

\* execute(operation, signal) up to the first await.
managerExecute(m, sig) ==
  invokeOperation(managerReset([m EXCEPT !.call.signal = sig]))

\* execute's catch block that retries before it looks at cancellation.
managerExecuteCatchRetriesFirst(m, error, random) ==
  LET n == [m EXCEPT !.state.lastError = AsError(error)]
  IN  IF managerShouldRetry(n, error)
        THEN waitForRetry(n, random)
        ELSE managerReject(
               [n EXCEPT !.call.onFailed = Append(@, n.state.lastError)],
               error)

\* execute's catch block that gives up without telling onFailed.
managerExecuteCatchNoOnFailed(m, error, random) ==
  LET n == [m EXCEPT !.state.lastError = AsError(error)]
  IN  IF isCancellationError(error) \/ n.call.signal = "aborted"
        THEN managerReject(n, error)
        ELSE IF ~managerShouldRetry(n, error)
               THEN managerReject(n, error)
               ELSE waitForRetry(n, random)

\* execute's catch block, up to `await sleep` inside waitForRetry.
managerExecuteCatch(m, error, random) ==
  LET n == [m EXCEPT !.state.lastError = AsError(error)]
  IN  IF isCancellationError(error) \/ n.call.signal = "aborted"
        THEN managerReject(n, error)
        ELSE IF ~managerShouldRetry(n, error)
               THEN managerReject(
                      [n EXCEPT !.call.onFailed =
                                  Append(@, n.state.lastError)],
                      error)
               ELSE waitForRetry(n, random)

\* execute's success path that forgets the second reset().
managerExecuteThenNoReset(m, result) ==
  [m EXCEPT !.call.onConnected = @ + 1,
            !.call.pc = "returned", !.call.result = result]

\* execute after `await operation(signal)` resolved.
managerExecuteThen(m, result) ==
  [managerReset([m EXCEPT !.call.onConnected = @ + 1])
     EXCEPT !.call.pc = "returned", !.call.result = result]

\* The operation's promise settles with outcome.
managerExecuteSettled(m, outcome, random) ==
  IF outcome.kind = "value"
    THEN managerExecuteThen(m, outcome)
    ELSE managerExecuteCatch(m, outcome, random)

\* `await sleep` resolved: the rest of waitForRetry, then the loop again.
managerExecuteResumes(m) ==
  invokeOperation([m EXCEPT !.call.timer = FALSE, !.state.attempt = @ + 1])

\* withRetry (part_006:205-242); w holds the merged config and the call.
WrCur == [config |-> retryConfig, call |-> wr]

CustomRetryable ==
  <<"c","u","s","t","o","m"," ","r","e","t","r","y","a","b","l","e">>

\* options?.shouldRetry ?? isNetworkError; the custom predicates are the
\* one of the test suite and one that says yes to everything.
shouldRetryFn(w, error) ==
  CASE w.call.shouldRetry = "undefined" -> isNetworkError(error)
    [] w.call.shouldRetry = "custom" ->
         error.kind = "Error" /\ error.message = CustomRetryable
    [] w.call.shouldRetry = "always" -> TRUE

withRetryInvoke(w) ==
  [w EXCEPT !.call.invoked = @ + 1, !.call.pc = "operation"]

withRetryReject(w, error) ==
  [w EXCEPT !.call.pc = "rejected", !.call.result = error]

\* withRetry(operation, options) up to the first await.
withRetry(w, sig, shouldRetry) ==
  withRetryInvoke([w EXCEPT !.call.signal = sig,
                            !.call.shouldRetry = shouldRetry,
                            !.call.attempt = 0])

\* withRetry's catch block that tells onRetry the zero-based attempt.
withRetryCatchZeroBased(w, error, random) ==
  LET n == [w EXCEPT !.call.lastError = AsError(error)]
  IN  IF isCancellationError(error) \/ n.call.signal = "aborted"
        THEN withRetryReject(n, error)
        ELSE IF ~shouldRetryFn(n, error)
                  \/ n.call.attempt >= n.config.maxRetries
               THEN withRetryReject(n, error)
               ELSE LET delay == calculateBackoffDelay(n.call.attempt,
                                                       n.config, random)
                    IN  [n EXCEPT !.call.onRetry =
                                    Append(@, [attempt |-> n.call.attempt,
                                               delayMs |-> delay,
                                               error |-> n.call.lastError]),
                                  !.call.pc = "sleep", !.call.timer = TRUE]

\* withRetry's catch block, up to `await sleep`.
withRetryCatch(w, error, random) ==
  LET n == [w EXCEPT !.call.lastError = AsError(error)]
  IN  IF isCancellationError(error) \/ n.call.signal = "aborted"
        THEN withRetryReject(n, error)
        ELSE IF ~shouldRetryFn(n, error)
                  \/ n.call.attempt >= n.config.maxRetries
               THEN withRetryReject(n, error)
               ELSE LET delay == calculateBackoffDelay(n.call.attempt,
                                                       n.config, random)
                        o == [n EXCEPT !.call.onRetry =
                                Append(@, [attempt |-> n.call.attempt + 1,
                                           delayMs |-> delay,
                                           error |-> n.call.lastError])]
                        s == sleep(delay, o.call.signal)
                    IN  IF s.settled # NoResult
                          THEN withRetryReject(o, s.settled)
                          ELSE [o EXCEPT !.call.pc = "sleep",
                                         !.call.timer = s.timer]

\* The operation's promise settles with outcome.
withRetrySettled(w, outcome, random) ==
  IF outcome.kind = "value"
    THEN [w EXCEPT !.call.pc = "returned", !.call.result = outcome]
    ELSE withRetryCatch(w, outcome, random)

\* `await sleep` resolved: attempt++, the loop test, the next invocation.
withRetryResumes(w) ==
  LET n == [w EXCEPT !.call.timer = FALSE, !.call.attempt = @ + 1]
  IN  IF n.call.attempt <= n.config.maxRetries
        THEN withRetryInvoke(n)
        ELSE withRetryReject(n, n.call.lastError)

----------------------------------------------------------------------------
\* The actions of the retry utilities.  A run uses the manager, withRetry
\* or a bare sleep.
Outcomes ==
  { Resolved(<<"s","u","c","c","e","s","s">>),
    NewError("Error", <<"N","e","t","w","o","r","k"," ","e","r","r","o","r">>),
    NewError("Error", <<"I","n","v","a","l","i","d"," ",
                        "r","e","s","p","o","n","s","e">>),
    NewError("Error", <<"a","b","o","r","t","e","d">>),
    NewError("AbortError", <<"T","i","m","e","o","u","t">>),
    NewError("Error", CustomRetryable),
    Rejected(<<"n","e","t","w","o","r","k">>) }

\* The manager has no custom predicate to tell one non-network error from
\* another.
ManagerOutcomes == Outcomes \ {NewError("Error", CustomRetryable)}

Randoms == {Frac(r, MaxRandom) : r \in 0..(MaxRandom - 1)}

RetryConfigs ==
  { RetryConfig(maxRetries, RetryInitialDelayMs, RetryMaxDelayMs,
                RetryBackoffMultiplier, jitter, Frac(1, 1)) :
      maxRetries \in 0..MaxRetries, jitter \in BOOLEAN }

CallSignals == {"none", "idle", "aborted"}

RetryInit ==
  /\ OrchCreated("none", TRUE)
  /\ CbCreated(1, 1, 1, FALSE)
  /\ RegCreated
  /\ \E cfg \in RetryConfigs : RetryCreated(cfg)
  /\ BackoffUnused(DEFAULT_RETRY_CONFIG)
  /\ TimeoutsUnused
  /\ CodecUnused
  /\ HookUnused

ManagerUnused == \A id \in CallIds : calls[id].pc = "idle"

RetryFrame ==
  UNCHANGED <<retryConfig, oVars, cbVars, regVars, backoff, timeoutVars,
               codecVars, hookVars>>

\* manager.execute(operation, signal) is called; call site 2 is the one
\* that comes second and it passes no signal.
ManagerExecuteOp ==
  \E id \in CallIds, sig \in CallSignals :
    /\ calls[id].pc = "idle" /\ wr.pc = "idle" /\ sl.pc = "idle"
    /\ id = 2 => (calls[1].pc # "idle" /\ sig = "none")
    /\ RmBecomes(id, managerExecute(RmCur(id), sig))
    /\ UNCHANGED <<wr, sl>> /\ RetryFrame

\* manager.reset() is called by the application, at any time up to the
\* moment the execute calls have invoked their operations MaxInvokedAtReset
\* times in all.
ManagerResetOp ==
  /\ wr.pc = "idle" /\ sl.pc = "idle"
  /\ calls[1].invoked + calls[2].invoked <= MaxInvokedAtReset
  /\ managerState' = managerReset(RmCur(1)).state
  /\ UNCHANGED <<calls, wr, sl>> /\ RetryFrame

\* The operation of an execute call settles.
ManagerOperationSettles ==
  \E id \in CallIds, outcome \in ManagerOutcomes, random \in Randoms :
    /\ calls[id].pc = "operation"
    /\ RmBecomes(id, [managerExecuteSettled(RmCur(id), outcome, random)
                        EXCEPT !.call.outcome = outcome])
    /\ UNCHANGED <<wr, sl>> /\ RetryFrame

\* The timer of an execute call's sleep fires.
ManagerTimerFires ==
  \E id \in CallIds :
    /\ calls[id].pc = "sleep" /\ calls[id].timer
    /\ RmBecomes(id, managerExecuteResumes(RmCur(id)))
    /\ UNCHANGED <<wr, sl>> /\ RetryFrame

\* The signal given to an execute call fires while the call is running.
ManagerSignalFires ==
  \E id \in CallIds :
    /\ calls[id].pc \in {"operation", "sleep"} /\ calls[id].signal = "idle"
    /\ calls' = [calls EXCEPT ![id] = signalAbortDuring(calls[id])]
    /\ UNCHANGED <<managerState, wr, sl>> /\ RetryFrame

\* withRetry(operation, options) is called.
WithRetryOp ==
  \E sig \in CallSignals, shouldRetry \in {"undefined", "custom", "always"} :
    /\ wr.pc = "idle" /\ ManagerUnused /\ sl.pc = "idle"
    /\ wr' = withRetry(WrCur, sig, shouldRetry).call
    /\ UNCHANGED <<managerState, calls, sl>> /\ RetryFrame

WithRetryOperationSettles ==
  \E outcome \in Outcomes, random \in Randoms :
    /\ wr.pc = "operation"
    /\ wr' = [withRetrySettled(WrCur, outcome, random).call
                EXCEPT !.outcome = outcome,
                       !.failures = IF outcome.kind = "value" THEN @
                                                              ELSE @ + 1]
    /\ UNCHANGED <<managerState, calls, sl>> /\ RetryFrame

WithRetryTimerFires ==
  /\ wr.pc = "sleep" /\ wr.timer
  /\ wr' = withRetryResumes(WrCur).call
  /\ UNCHANGED <<managerState, calls, sl>> /\ RetryFrame

WithRetrySignalFires ==
  /\ wr.pc \in {"operation", "sleep"} /\ wr.signal = "idle"
  /\ wr' = signalAbortDuring(wr)
  /\ UNCHANGED <<managerState, calls, sl>> /\ RetryFrame

\* The application calls sleep(ms, signal) itself.
SleepOp ==
  \E sig \in CallSignals :
    /\ sl.pc = "idle" /\ ManagerUnused /\ wr.pc = "idle"
    /\ LET s == sleep(1, sig) IN
         sl' = [pc |-> IF s.settled # NoResult THEN "rejected" ELSE "sleep",
                signal |-> sig, timer |-> s.timer, result |-> s.settled,
                armed |-> IF s.timer THEN 1 ELSE 0]
    /\ UNCHANGED <<managerState, calls, wr>> /\ RetryFrame

\* setTimeout(resolve, ms) fires.
SleepTimerFires ==
  /\ sl.pc = "sleep" /\ sl.timer
  /\ sl' = [sl EXCEPT !.pc = "returned", !.timer = FALSE]
  /\ UNCHANGED <<managerState, calls, wr>> /\ RetryFrame

SleepSignalFires ==
  /\ sl.pc = "sleep" /\ sl.signal = "idle"
  /\ sl' = signalAbortDuring(sl)
  /\ UNCHANGED <<managerState, calls, wr>> /\ RetryFrame

RetryNext ==
  \/ ManagerExecuteOp
  \/ ManagerResetOp
  \/ ManagerOperationSettles
  \/ ManagerTimerFires
  \/ ManagerSignalFires
  \/ WithRetryOp
  \/ WithRetryOperationSettles
  \/ WithRetryTimerFires
  \/ WithRetrySignalFires
  \/ SleepOp
  \/ SleepTimerFires
  \/ SleepSignalFires

RetrySpec == RetryInit /\ [][RetryNext]_vars
----------------------------------------------------------------------------
\* calculateBackoffDelay on its own: the configurations and attempts it is
\* applied to.
MaxAttempt == 3             \* largest zero-based attempt
MaxInitialDelayMs == 3      \* largest config.initialDelayMs
MaxMaxDelayMs == 6          \* largest config.maxDelayMs
MaxBackoffMultiplier == 3   \* largest config.backoffMultiplier
MaxJitterSteps == 2         \* jitterFactor is one of 0/n .. n/n
MaxRandomSteps == 4         \* Math.random() is one of 0/n .. (n-1)/n

BackoffConfigs ==
  { RetryConfig(0, initialDelayMs, maxDelayMs, backoffMultiplier, jitter,
                Frac(j, MaxJitterSteps)) :
      initialDelayMs \in 0..MaxInitialDelayMs,
      maxDelayMs \in 1..MaxMaxDelayMs,
      backoffMultiplier \in 1..MaxBackoffMultiplier,
      jitter \in BOOLEAN,
      j \in 0..MaxJitterSteps }

BackoffRandoms ==
  {Frac(r, MaxRandomSteps) : r \in 0..(MaxRandomSteps - 1)}

BackoffInit ==
  /\ OrchCreated("none", TRUE)
  /\ CbCreated(1, 1, 1, FALSE)
  /\ RegCreated
  /\ RetryCreated(DEFAULT_RETRY_CONFIG)
  /\ \E cfg \in BackoffConfigs : BackoffUnused(cfg)
  /\ TimeoutsUnused
  /\ CodecUnused
  /\ HookUnused

\* calculateBackoffDelay(attempt, config) is called.
CalculateBackoffDelayOp ==
  \E attempt \in 0..MaxAttempt, random \in BackoffRandoms :
    /\ backoff' = [config |-> backoff.config, attempt |-> attempt,
                   random |-> random,
                   delay |-> calculateBackoffDelay(attempt, backoff.config,
                                                   random),
                   called |-> TRUE]
    /\ UNCHANGED <<oVars, cbVars, regVars, retryVars, timeoutVars,
                   codecVars, hookVars>>

BackoffNext == CalculateBackoffDelayOp

BackoffSpec == BackoffInit /\ [][BackoffNext]_vars
----------------------------------------------------------------------------
\* The timeout utilities (part_007): createTimeoutController,
\* createIdleTimeout, fetchWithTimeout and readStreamWithIdleTimeout.
MaxTimeoutMs == 2   \* largest configured timeout duration
MaxClock == 4       \* how far the timers' clock runs
MaxChunks == 3      \* chunks of one read run, touch() calls of one instance

DEFAULT_TIMEOUT_CONFIG == [requestMs |-> 120000, idleMs |-> 30000]

\* { ...DEFAULT_TIMEOUT_CONFIG, ...config } for a partial config.
mergeTimeoutConfig(config) ==
  [k \in DOMAIN DEFAULT_TIMEOUT_CONFIG |->
     IF k \in DOMAIN config THEN config[k] ELSE DEFAULT_TIMEOUT_CONFIG[k]]

\* controller.abort(reason): only the first abort sets the reason.
controllerAbort(sig, reason) ==
  IF sig.aborted THEN sig ELSE [sig EXCEPT !.aborted = TRUE, !.reason = reason]

\* timeout = setTimeout(callback, ms) at time t, for an owner that keeps its
\* handle in `timeout`.
armTimeout(o, ms, t) ==
  LET handle == [id |-> o.armed + 1, due |-> t + ms]
  IN  [o EXCEPT !.timeout = handle, !.timers = @ \cup {handle},
                !.armed = @ + 1]

\* clearTimeout(timeout) for such an owner.
disarmTimeout(o) == [o EXCEPT !.timers = @ \ {o.timeout}]

createTimeoutController(timeoutMs, existingSignal, t) ==
  LET preFired == existingSignal.given /\ existingSignal.aborted
      c == [pc |-> "created", timeoutMs |-> timeoutMs,
            existing |-> existingSignal,
            listener |-> existingSignal.given /\ ~existingSignal.aborted,
            signal |-> IF preFired
                         THEN controllerAbort(FreshSignal,
                                              existingSignal.reason)
                         ELSE FreshSignal,
            handed |-> "controller", timeout |-> NullTimeout,
            timers |-> {}, armed |-> 0, createdAt |-> t,
            cleared |-> FALSE,
            first |-> IF preFired THEN "upstream" ELSE "none"]
  IN  armTimeout(c, timeoutMs, t)

\* The 'abort' listener on the existing signal.
existingSignalListener(c) ==
  [c EXCEPT !.signal = controllerAbort(@, c.existing.reason)]

\* The callback of the request timer.
requestTimeoutCallback(c) ==
  [c EXCEPT !.signal =
     controllerAbort(@, TimeoutError("request", c.timeoutMs))]

\* A clear() that leaves the request timer armed.
clearControllerKeepsTimer(c) == c

\* clear: () => clearTimeout(timeout)
clearController(c) == disarmTimeout(c)

\* fetchWithTimeout that builds its controller for every duration.
fetchWithTimeoutAlwaysTimed(config, existingSignal, t) ==
  [createTimeoutController(mergeTimeoutConfig(config).requestMs,
                           existingSignal, t) EXCEPT !.pc = "fetching"]

\* fetchWithTimeout up to the await of fetchFn; handed is the signal it
\* passes to fetchFn.
fetchWithTimeout(config, existingSignal, t) ==
  LET timeout == mergeTimeoutConfig(config)
  IN  IF timeout.requestMs = 0
        THEN [pc |-> "fetching", timeoutMs |-> 0,
              existing |-> existingSignal, listener |-> FALSE,
              signal |-> FreshSignal,
              handed |-> IF existingSignal.given THEN "existing"
                                                 ELSE "fresh",
              timeout |-> NullTimeout, timers |-> {}, armed |-> 0,
              createdAt |-> t, cleared |-> FALSE, first |-> "none"]
        ELSE [createTimeoutController(timeout.requestMs, existingSignal, t)
                EXCEPT !.pc = "fetching"]

\* fetchFn settled: finally { clear() }, and the call settles the same way.
fetchWithTimeoutFinally(c) ==
  IF c.handed = "controller"
    THEN [clearController(c) EXCEPT !.pc = "settled", !.cleared = TRUE]
    ELSE [c EXCEPT !.pc = "settled"]

\* The signal fetchFn was called with, as it is now.
handedSignal(c) ==
  CASE c.handed = "controller" -> c.signal
    [] c.handed = "existing" -> c.existing
    [] OTHER -> FreshSignal

\* A touch() that arms the new timer without cancelling the running one.
touchKeepsOldTimer(i, t) == armTimeout(i, i.timeoutMs, t)

touch(i, t) ==
  armTimeout(IF i.timeout # NullTimeout THEN disarmTimeout(i) ELSE i,
             i.timeoutMs, t)

clear(i) ==
  IF i.timeout # NullTimeout
    THEN [disarmTimeout(i) EXCEPT !.timeout = NullTimeout]
    ELSE i

createIdleTimeout(timeoutMs, t) ==
  touch([NoIdleTimeout EXCEPT !.timeoutMs = timeoutMs], t)

\* readStreamWithIdleTimeout up to its first await of reader.read().
readStreamWithIdleTimeout(config, t) ==
  LET timeout == mergeTimeoutConfig(config)
  IN  [pc |-> "reading", idleMs |-> timeout.idleMs,
       it |-> IF timeout.idleMs = 0 THEN NoIdleTimeout
              ELSE createIdleTimeout(timeout.idleMs, t),
       reader |-> "readable", cancel |-> <<>>, chunks |-> 0,
       result |-> NoReason, lastAt |-> t]

\* What onChunk throws, and what a failing reader.read() rejects with.
OnChunkError == [kind |-> "Error", type |-> "onChunk", timeoutMs |-> 0]
ReadError == [kind |-> "Error", type |-> "read", timeoutMs |-> 0]

\* The loop is left: finally { idleTimeout?.clear() } and the call settles.
readStreamFinally(r, pc, result) ==
  [r EXCEPT !.it = clear(@), !.pc = pc, !.result = result]

\* reader.read() resolved with a chunk: touch(), then onChunk(value).
readStreamChunk(r, t, throws) ==
  LET touched == IF r.idleMs = 0 THEN r ELSE [r EXCEPT !.it = touch(@, t)]
      called == [touched EXCEPT !.chunks = @ + 1]
  IN  IF throws THEN readStreamFinally(called, "rejected", OnChunkError)
      ELSE called

\* The idle callback: reader.cancel(new TimeoutError('idle', idleMs)).  A
\* cancelled reader is closed.
idleTimeoutCallback(r) ==
  [r EXCEPT !.cancel = Append(@, TimeoutError("idle", r.idleMs)),
            !.reader = "closed"]

\* reader.read() resolved with done: true (the stream ended or the reader
\* was cancelled): break.
readStreamDone(r) ==
  readStreamFinally([r EXCEPT !.reader = "closed"], "resolved", NoReason)

\* The inputs of the timeout runs.
UpstreamReasons == {UserCancelled, AbortErrorReason}

ExistingSignals ==
  {NoSignal, FreshSignal}
    \cup {[given |-> TRUE, aborted |-> TRUE, reason |-> reason] :
            reason \in UpstreamReasons}

TimeoutConfigs ==
  UNION {[given -> 0..MaxTimeoutMs] : given \in SUBSET {"requestMs", "idleMs"}}

TimeoutInit ==
  /\ OrchCreated("none", TRUE)
  /\ CbCreated(1, 1, 1, FALSE)
  /\ RegCreated
  /\ RetryCreated(DEFAULT_RETRY_CONFIG)
  /\ BackoffUnused(DEFAULT_RETRY_CONFIG)
  /\ TimeoutsUnused
  /\ CodecUnused
  /\ HookUnused

NoTimeoutRun == tc.pc = "unused" /\ idt.pc = "unused" /\ rs.pc = "unused"

TimeoutFrame ==
  UNCHANGED <<oVars, cbVars, regVars, retryVars, backoff, codecVars, hookVars>>

\* The application calls createTimeoutController itself.
CreateTimeoutControllerOp ==
  \E timeoutMs \in 0..MaxTimeoutMs, existingSignal \in ExistingSignals :
    /\ NoTimeoutRun
    /\ tc' = createTimeoutController(timeoutMs, existingSignal, toClock)
    /\ UNCHANGED <<toClock, idt, rs>> /\ TimeoutFrame

\* ... and the clear() it was given.
ClearControllerOp ==
  /\ tc.pc = "created"
  /\ tc' = [clearController(tc) EXCEPT !.cleared = TRUE]
  /\ UNCHANGED <<toClock, idt, rs>> /\ TimeoutFrame

FetchWithTimeoutOp ==
  \E config \in TimeoutConfigs, existingSignal \in ExistingSignals :
    /\ NoTimeoutRun
    /\ tc' = fetchWithTimeout(config, existingSignal, toClock)
    /\ UNCHANGED <<toClock, idt, rs>> /\ TimeoutFrame

\* fetchFn resolves or rejects.
FetchSettles ==
  /\ tc.pc = "fetching"
  /\ tc' = fetchWithTimeoutFinally(tc)
  /\ UNCHANGED <<toClock, idt, rs>> /\ TimeoutFrame

\* The request timer is due: its callback runs.
RequestTimerFires ==
  \E handle \in tc.timers :
    /\ handle.due <= toClock
    /\ tc' = [requestTimeoutCallback([tc EXCEPT !.timers = @ \ {handle}])
                EXCEPT !.first = IF @ = "none" /\ ~tc.cleared
                                   THEN "timeout" ELSE @]
    /\ UNCHANGED <<toClock, idt, rs>> /\ TimeoutFrame

\* The owner of the existing signal aborts it.
ExistingSignalAborts ==
  \E reason \in UpstreamReasons :
    /\ tc.pc # "unused" /\ tc.existing.given /\ ~tc.existing.aborted
    /\ LET c == [tc EXCEPT !.existing.aborted = TRUE,
                           !.existing.reason = reason,
                           !.first = IF @ = "none" THEN "upstream" ELSE @]
       IN  tc' = IF c.listener THEN existingSignalListener(c) ELSE c
    /\ UNCHANGED <<toClock, idt, rs>> /\ TimeoutFrame

\* The application makes an idle timeout of its own and uses it.
CreateIdleTimeoutOp ==
  \E timeoutMs \in 1..MaxTimeoutMs :
    /\ NoTimeoutRun
    /\ idt' = [pc |-> "created", it |-> createIdleTimeout(timeoutMs, toClock),
               fired |-> 0, cleared |-> FALSE, afterClear |-> 0,
               touchedAt |-> toClock]
    /\ UNCHANGED <<toClock, tc, rs>> /\ TimeoutFrame

IdleTouchOp ==
  /\ idt.pc = "created" /\ idt.it.armed <= MaxChunks
  /\ idt' = [idt EXCEPT !.it = touch(@, toClock), !.touchedAt = toClock]
  /\ UNCHANGED <<toClock, tc, rs>> /\ TimeoutFrame

IdleClearOp ==
  /\ idt.pc = "created"
  /\ idt' = [idt EXCEPT !.it = clear(@), !.cleared = TRUE]
  /\ UNCHANGED <<toClock, tc, rs>> /\ TimeoutFrame

\* A timer of the instance is due: onTimeout runs.
IdleTimerFires ==
  \E handle \in idt.it.timers :
    /\ handle.due <= toClock
    /\ idt' = [idt EXCEPT !.it.timers = @ \ {handle}, !.fired = @ + 1,
                          !.afterClear = IF idt.cleared THEN @ + 1 ELSE @]
    /\ UNCHANGED <<toClock, tc, rs>> /\ TimeoutFrame

ReadStreamOp ==
  \E config \in TimeoutConfigs :
    /\ NoTimeoutRun
    /\ rs' = readStreamWithIdleTimeout(config, toClock)
    /\ UNCHANGED <<toClock, tc, idt>> /\ TimeoutFrame

\* A chunk arrives: the pending read resolves with it.
ChunkArrives ==
  \E throws \in BOOLEAN :
    /\ rs.pc = "reading" /\ rs.reader = "readable" /\ rs.chunks < MaxChunks
    /\ rs' = [readStreamChunk(rs, toClock, throws) EXCEPT !.lastAt = toClock]
    /\ UNCHANGED <<toClock, tc, idt>> /\ TimeoutFrame

\* The stream ends: the pending read resolves with done.
StreamEnds ==
  /\ rs.pc = "reading" /\ rs.reader = "readable"
  /\ rs' = readStreamDone(rs)
  /\ UNCHANGED <<toClock, tc, idt>> /\ TimeoutFrame

\* The stream fails: the pending read rejects.
StreamErrors ==
  /\ rs.pc = "reading" /\ rs.reader = "readable"
  /\ rs' = readStreamFinally([rs EXCEPT !.reader = "errored"], "rejected",
                             ReadError)
  /\ UNCHANGED <<toClock, tc, idt>> /\ TimeoutFrame

\* The idle timer of the read run is due: the reader is cancelled, and a
\* read that is pending completes with done.
ReadIdleTimerFires ==
  \E handle \in rs.it.timers :
    /\ handle.due <= toClock
    /\ LET cancelled ==
             idleTimeoutCallback([rs EXCEPT !.it.timers = @ \ {handle}])
       IN  rs' = IF rs.pc = "reading" THEN readStreamDone(cancelled)
                 ELSE cancelled
    /\ UNCHANGED <<toClock, tc, idt>> /\ TimeoutFrame

\* Time passes; a due timer fires before the clock moves on.
TimeoutTick ==
  /\ ~NoTimeoutRun /\ toClock < MaxClock
  /\ \A handle \in tc.timers \cup idt.it.timers \cup rs.it.timers :
       handle.due > toClock
  /\ toClock' = toClock + 1
  /\ UNCHANGED <<tc, idt, rs>> /\ TimeoutFrame

TimeoutNext ==
  \/ CreateTimeoutControllerOp
  \/ ClearControllerOp
  \/ FetchWithTimeoutOp
  \/ FetchSettles
  \/ RequestTimerFires
  \/ ExistingSignalAborts
  \/ CreateIdleTimeoutOp
  \/ IdleTouchOp
  \/ IdleClearOp
  \/ IdleTimerFires
  \/ ReadStreamOp
  \/ ChunkArrives
  \/ StreamEnds
  \/ StreamErrors
  \/ ReadIdleTimerFires
  \/ TimeoutTick

TimeoutSpec == TimeoutInit /\ [][TimeoutNext]_vars
----------------------------------------------------------------------------
\* The SSE codec's specifications.  The server side writes frames; their
\* text reaches the client cut into chunks at any position.  The bytes of
\* a chunk are its characters: the texts are ASCII, which TextEncoder and
\* TextDecoder carry one to one.

MaxFrames == 3          \* frames written in one run
MaxPayloadExtra == 4    \* characters of the long payload beyond the limit

\* s.repeat(count)
RECURSIVE repeat(_, _)
repeat(s, count) ==
  IF count = 0 THEN ""
  ELSE LET half == repeat(s, count \div 2)
       IN  half \o half \o (IF count % 2 = 1 THEN s ELSE "")

\* The values frames carry as data.
JsonValues ==
  {JNull, JBool(TRUE), JNum(0), JNum(1), JNum(42), JStr(""), JStr("b"),
   JStr("a\n\nb"),
   JStr("say \"hi\""), JArr(<<JNum(1), JStr("x")>>), JObj(<<>>),
   JObj(<<JMember("text", JStr("Hi"))>>),
   JObj(<<JMember("result",
                  JObj(<<JMember("items", JArr(<<JNum(1), JNum(2)>>))>>))>>)}

\* The SSEMessage values formatSSEMessage is given.
SSEMessages ==
  [id : {<<>>, <<"msg: 7">>}, retry : {<<>>, <<3000>>},
   event : {<<>>, <<"update">>}, data : JsonValues]

NoMessage == [id |-> <<>>, retry |-> <<>>, event |-> <<>>, data |-> JNull]

\* What the server side writes: a frame of formatSSEMessage, a heartbeat
\* comment, an empty frame, a frame whose data line is not JSON, a frame of
\* an event line only.
DataFrame(message) == [kind |-> "data", message |-> message, payload |-> ""]
CommentFrame == [kind |-> "comment", message |-> NoMessage, payload |-> ""]
EmptyFrame == [kind |-> "empty", message |-> NoMessage, payload |-> ""]
MalformedFrame(event, payload) ==
  [kind |-> "malformed", message |-> [NoMessage EXCEPT !.event = event],
   payload |-> payload]
EventOnlyFrame(event) ==
  [kind |-> "eventOnly", message |-> [NoMessage EXCEPT !.event = <<event>>],
   payload |-> ""]

FrameText(f) ==
  CASE f.kind = "data" -> formatSSEMessage(f.message)
    [] f.kind = "comment" -> HeartbeatFrame("heartbeat")
    [] f.kind = "empty" -> "\n\n"
    [] f.kind = "malformed" ->
         (IF f.message.event # <<>>
            THEN "event: " \o f.message.event[1] \o "\n" ELSE "")
           \o "data: " \o f.payload \o "\n\n"
    [] OTHER -> "event: " \o f.message.event[1] \o "\n\n"

RECURSIVE WireText(_)
WireText(frames) ==
  IF frames = <<>> THEN ""
  ELSE FrameText(Head(frames)) \o WireText(Tail(frames))

\* Payloads JSON.parse rejects; the last is longer than the 120 characters
\* onError is given.
LongPayload == "{" \o repeat("x", RawLineLimit + MaxPayloadExtra - 1)
MalformedPayloads == {"not valid json", "{bad", "{\"a\":", LongPayload}

ParserFrames ==
  {DataFrame(message) : message \in SSEMessages}
    \cup {CommentFrame, EmptyFrame}
    \cup {MalformedFrame(<<>>, payload) : payload \in MalformedPayloads}

\* The frames of the longer runs.
CoreFrames ==
  {DataFrame([NoMessage EXCEPT !.data = JNum(1)]),
   DataFrame([NoMessage EXCEPT !.event = <<"update">>, !.data = JStr("b")]),
   CommentFrame, EmptyFrame, MalformedFrame(<<>>, "{bad")}

ParserInputs ==
  {<<f>> : f \in ParserFrames}
    \cup UNION {[1..count -> CoreFrames] : count \in 2..MaxFrames}

ParserInit ==
  /\ OrchCreated("none", TRUE)
  /\ CbCreated(1, 1, 1, FALSE)
  /\ RegCreated
  /\ RetryCreated(DEFAULT_RETRY_CONFIG)
  /\ BackoffUnused(DEFAULT_RETRY_CONFIG)
  /\ TimeoutsUnused
  /\ CodecUnused
  /\ HookUnused

CodecFrame ==
  UNCHANGED <<oVars, cbVars, regVars, retryVars, backoff, timeoutVars,
              hookVars>>

\* The next chunk: the characters after the ones that arrived, up to cut.
NextChunk(cut) == SubSeq(wire.text, wire.fed + 1, cut)
Arrived(cut) == [wire EXCEPT !.fed = cut]

\* The values an onMessage callback that throws does so for: as the one of
\* useSSEStream (lines 317-322), it rejects some of the updates it is given.
RejectedUpdates == {JNum(1)}

\* What onMessage may throw for, given the frames written: nothing, or the
\* rejected values when one of them is among the frames' data.
OnMessageThrows(frames) ==
  {{}} \cup {RejectedUpdates \cap {frames[i].message.data :
                               i \in {j \in 1..Len(frames) :
                                        frames[j].kind = "data"}}}

\* The server side writes its frames and the client makes a fresh parser.
CreateSSEParserOp ==
  \E frames \in ParserInputs, hasOnError \in BOOLEAN :
    \E throwsOn \in OnMessageThrows(frames) :
      /\ parser.pc = "unused" /\ sse.pc = "unused"
      /\ wire' = [frames |-> frames, text |-> WireText(frames), fed |-> 0]
      /\ parser' = [pc |-> "parsing",
                    p |-> createSSEParser(hasOnError, throwsOn)]
    /\ UNCHANGED sse
    /\ CodecFrame

\* parse(chunk) with the next chunk, cut at any position.
ParseOp ==
  \E cut \in wire.fed..Len(wire.text) :
    /\ parser.pc = "parsing" /\ parser.p.thrown = <<>>
    /\ parser' = [parser EXCEPT !.p = parse(@, NextChunk(cut))]
    /\ wire' = Arrived(cut)
    /\ UNCHANGED sse
    /\ CodecFrame

ParserNext ==
  \/ CreateSSEParserOp
  \/ ParseOp

ParserSpec == ParserInit /\ [][ParserNext]_vars

MaxStreamFrames == 2    \* frames written in one parseSSEStream run

\* The handlers of SSEEventHandlers.
Handlers == {"onStart", "onDelta", "onDone", "onError", "onProgress"}

\* The handlers given and the ones among them that throw.
HandlerChoices ==
  {[have |-> Handlers, throws |-> {}], [have |-> Handlers, throws |-> Handlers],
   [have |-> {}, throws |-> {}]}

Text(s) == JObj(<<JMember("text", JStr(s))>>)
Phase(s) == JObj(<<JMember("phase", JStr(s))>>)

\* The frames of a typed stream: each event with each kind of data, an
\* event line without a data line, a data line that is not JSON, a comment.
StreamFrames ==
  {DataFrame([NoMessage EXCEPT !.event = event, !.data = data]) :
     event \in {<<>>, <<"start">>, <<"delta">>, <<"done">>, <<"error">>},
     data \in {Text("Hi"), Phase("p"), JNull,
               JObj(<<JMember("error", JStr("boom"))>>)}}
    \cup {EventOnlyFrame("done"), EventOnlyFrame("error")}
    \cup {MalformedFrame(event, "{bad") : event \in {<<>>, <<"done">>}}
    \cup {CommentFrame}

\* The frames that follow the first one.
FollowFrames ==
  {DataFrame([NoMessage EXCEPT !.data = Phase("q")]),
   DataFrame([NoMessage EXCEPT !.event = <<"delta">>, !.data = Text("Lo")])}

StreamInputs ==
  {<<f>> : f \in StreamFrames}
    \cup UNION {{<<f>> \o rest : f \in StreamFrames,
                                 rest \in [1..count -> FollowFrames]} :
                  count \in 1..(MaxStreamFrames - 1)}

StreamInit ==
  /\ OrchCreated("none", TRUE)
  /\ CbCreated(1, 1, 1, FALSE)
  /\ RegCreated
  /\ RetryCreated(DEFAULT_RETRY_CONFIG)
  /\ BackoffUnused(DEFAULT_RETRY_CONFIG)
  /\ TimeoutsUnused
  /\ CodecUnused
  /\ HookUnused

PlainError(message) ==
  [kind |-> "Error", message |-> JStr(message), payload |-> JNull]

\* The server side writes its frames and the client calls parseSSEStream
\* with the response; a response without a body is rejected at once.
ParseSSEStreamOp ==
  \E frames \in StreamInputs, choice \in HandlerChoices, body \in BOOLEAN :
    /\ parser.pc = "unused" /\ sse.pc = "unused"
    /\ wire' = [frames |-> frames, text |-> WireText(frames), fed |-> 0]
    /\ sse' = IF body THEN parseSSEStream(choice.have, choice.throws)
              ELSE [parseSSEStream(choice.have, choice.throws)
                      EXCEPT !.pc = "rejected",
                             !.thrown = <<PlainError("No response body")>>]
    /\ UNCHANGED parser
    /\ CodecFrame

\* reader.read() resolves with the next chunk, cut at any position.
StreamReadChunk ==
  \E cut \in wire.fed..Len(wire.text) :
    /\ sse.pc = "reading"
    /\ sse' = streamChunk(sse, NextChunk(cut))
    /\ wire' = Arrived(cut)
    /\ UNCHANGED parser
    /\ CodecFrame

\* reader.read() resolves with done: the server side closed the stream,
\* at the end of its text or before.
StreamReadDone ==
  /\ sse.pc = "reading"
  /\ sse' = streamDone(sse)
  /\ UNCHANGED <<wire, parser>>
  /\ CodecFrame

\* reader.read() rejects.
StreamReadFails ==
  /\ sse.pc = "reading"
  /\ sse' = streamFails(sse, PlainError("read failed"))
  /\ UNCHANGED <<wire, parser>>
  /\ CodecFrame

StreamNext ==
  \/ ParseSSEStreamOp
  \/ StreamReadChunk
  \/ StreamReadDone
  \/ StreamReadFails

StreamSpec == StreamInit /\ [][StreamNext]_vars
----------------------------------------------------------------------------
\* The useSSEStream hook's actions.
MaxStarts == 2      \* start() calls on one hook
MaxHookRetries == 1 \* maxRetries of the hook's retry option

\* retryConfig of the hook (line 224): the defaults under a retry option that
\* gives small delays without jitter.
HookRetryConfig ==
  [DEFAULT_RETRY_CONFIG EXCEPT !.maxRetries = MaxHookRetries,
                               !.initialDelayMs = RetryInitialDelayMs,
                               !.maxDelayMs = RetryMaxDelayMs,
                               !.backoffMultiplier = RetryBackoffMultiplier,
                               !.jitter = FALSE]

HookInit ==
  /\ OrchCreated("none", TRUE)
  /\ CbCreated(1, 1, 1, FALSE)
  /\ RegCreated
  /\ RetryCreated(DEFAULT_RETRY_CONFIG)
  /\ BackoffUnused(DEFAULT_RETRY_CONFIG)
  /\ TimeoutsUnused
  /\ CodecUnused
  /\ HookUnused

HookStep(h) ==
  /\ HookBecomes(h)
  /\ UNCHANGED <<oVars, cbVars, regVars, retryVars, backoff, timeoutVars,
                 codecVars>>

\* The updates a server sends: progress, completion with a result, with a
\* null result and without one, failure with and without an error text.
HookUpdates ==
  {Update("working", <<"Working">>, <<>>, <<>>),
   Update(completePhase, <<>>, <<JStr("r")>>, <<>>),
   Update(completePhase, <<>>, <<JNull>>, <<>>),
   Update(completePhase, <<>>, <<>>, <<>>),
   Update(errorPhase, <<>>, <<>>, <<(<<"b","o","o","m">>)>>),
   Update(errorPhase, <<>>, <<>>, <<>>)}

\* What an attempt fails with: a failure that is not retried, the AbortError
\* of an aborted fetch or read, and a network failure, which is retried.
HttpError == NewError("Error", <<"H","T","T","P"," ","5","0","0">>)
AbortError == NewError("AbortError", <<"T","h","e"," ","o","p","e","r","a",
                                       "t","i","o","n"," ","w","a","s"," ",
                                       "a","b","o","r","t","e","d">>)

NetworkFailure == NewError("TypeError", <<"n","e","t","w","o","r","k"," ",
                                          "e","r","r","o","r">>)

\* The start() calls whose attempt can still read: pending, not aborted.
Reading == {k \in 1..Len(runs) : runs[k].pc = "running" /\ ~runs[k].aborted}

\* start(input) is called.
HookStart ==
  /\ Len(runs) < MaxStarts
  /\ HookStep(start(HookCur))

\* A frame of the response of start call k reaches its parser.
HookOnMessage ==
  \E k \in Reading, update \in HookUpdates :
    HookStep(onMessage(HookCur, k, update))

\* The attempt of start call k fails with a network failure and its
\* reconnection manager retries (part_006:143-157, 115-125): it calls
\* onReconnecting and sleeps.
HookOnReconnecting ==
  \E k \in Reading :
    /\ isNetworkError(NetworkFailure)
    /\ runs[k].attempt < HookRetryConfig.maxRetries
    /\ HookStep(onReconnecting(HookCur, k,
          [attempt |-> runs[k].attempt + 1,
           maxAttempts |-> HookRetryConfig.maxRetries,
           delayMs |-> calculateBackoffDelay(runs[k].attempt, HookRetryConfig,
                                             Frac(0, 1))]))

\* The sleep of start call k's manager elapses and its operation runs again.
HookOperation ==
  \E k \in 1..Len(runs) :
    /\ runs[k].pc = "sleeping"
    /\ ~runs[k].aborted
    /\ HookStep(operation(HookCur, k))

\* The read loop of start call k saw the end of the response.
HookStartReturn ==
  \E k \in Reading : HookStep(startReturn(HookCur, k))

\* reconnect.execute of start call k rejects: an aborted attempt or sleep
\* with the AbortError, a running attempt with the failure that is not
\* retried, the AbortError, or the network failure once the retries are used.
HookStartCatch ==
  \E k \in 1..Len(runs) :
    \/ /\ runs[k].pc \in {"running", "sleeping"}
       /\ runs[k].aborted
       /\ HookStep(startCatch(HookCur, k,
            IF runs[k].pc = "sleeping" THEN SleepAborted ELSE AbortError))
    \/ /\ runs[k].pc = "running"
       /\ ~runs[k].aborted
       /\ \E error \in {HttpError, AbortError} \cup
                        IF runs[k].attempt < HookRetryConfig.maxRetries
                          THEN {} ELSE {NetworkFailure} :
            HookStep(startCatch(HookCur, k, error))

HookCancel == HookStep(cancel(HookCur))

HookReset == HookStep(resetStream(HookCur))

HookNext ==
  \/ HookStart
  \/ HookOnMessage
  \/ HookOnReconnecting
  \/ HookOperation
  \/ HookStartReturn
  \/ HookStartCatch
  \/ HookCancel
  \/ HookReset

HookSpec == HookInit /\ [][HookNext]_vars
----------------------------------------------------------------------------
\* Properties of the StreamOrchestrator, checked under OrchSpec.

HookCount(h, name) == Cardinality({i \in 1..Len(h) : h[i][1] = name})
LastHook(h) == IF Len(h) = 0 THEN <<"", "", "">> ELSE h[Len(h)]
UpdateOps ==
  {"sendUpdate", "sendProgress", "sendResult", "sendError", "sendWithMetadata"}
WriteOps == UpdateOps \cup {"sendEvent", "heartbeat"}

\* C1: once the closed flag is set, every later sendUpdate, sendProgress,
\* sendResult, sendError, sendEvent and heartbeat tick leaves the sink alone
\* (controller.enqueue is not even called) and throws nothing.
ClosedSessionWritesNothing ==
  [][(isClosed /\ lastOp' \in WriteOps) =>
       (sink' = sink /\ enqueueCalls' = enqueueCalls /\ thrown' = "none")]_vars

\* close() succeeded (its onStreamEnd is the last hook), then sendUpdate ran.
ClosedSessionWritesNothingWitness ==
  /\ isClosed /\ closeCalled /\ lastOp = "sendUpdate"
  /\ LastHook(hooks) = <<"onStreamEnd", "true", Undefined>>

\* C2: over abort(), close() and signal firings, onAbort and onStreamEnd are
\* each invoked at most once, and a second abort(), or an abort() after
\* close(), changes no state and fires no hook.
AbortIsIdempotent ==
  [][/\ HookCount(hooks', "onAbort") <= 1
     /\ HookCount(hooks', "onStreamEnd") <= 1
     /\ (lastOp' = "abort" /\ (abortCalled \/ closeCalled)) =>
          UNCHANGED oFields]_vars

\* C3: aborted implies closed, and neither flag is ever cleared.
AbortedImpliesClosedAndTerminal ==
  /\ [](isAborted => isClosed)
  /\ [][(isClosed => isClosed') /\ (isAborted => isAborted')]_vars

\* An aborted session on which close() was called afterwards.
AbortedImpliesClosedWitness ==
  isAborted /\ isClosed /\ abortCalled /\ lastOp = "close"

\* C4: when controller.enqueue throws inside sendUpdate, sendUpdate returns
\* normally, the session is closed, the error is the last error and onError
\* was invoked once, with that error.
WriteFailureIsAbsorbed ==
  [][(/\ lastOp' \in UpdateOps
      /\ ~isClosed
      /\ controller # "readable"
      /\ enqueueCalls' = enqueueCalls + 1) =>
       (/\ thrown' = "none"
        /\ isClosed'
        /\ lastError' = ErrEnqueue
        /\ hooks' = Append(hooks, <<"onError", ErrEnqueue, Undefined>>))]_vars

WriteFailureIsAbsorbedWitness ==
  /\ lastOp = "sendUpdate" /\ isClosed /\ ~isAborted
  /\ controller = "closed" /\ enqueueCalls = 1 /\ sink = <<>>
  /\ lastError = ErrEnqueue

\* C5: the external signal aborts a session that is still open the moment it
\* fires: closed and aborted, heartbeat stopped, onAbort('Stream aborted') and
\* onStreamEnd(success = false, error) called; a signal already aborted at
\* construction leaves the session closed and aborted.
SignalAbortsSession ==
  /\ [](lastOp = "constructor" /\ signal = "aborted" => isClosed /\ isAborted)
  /\ [][(lastOp' = "signal" /\ ~isClosed) =>
          (/\ isClosed' /\ isAborted' /\ ~heartbeatInterval'
           /\ hooks' = hooks \o <<<<"onAbort", DefaultAbortReason, Undefined>>,
                                  <<"onStreamEnd", "false", DefaultAbortReason>>>>)]_vars

\* C6: whenever a closed session has had close() called on it, onStreamEnd
\* has been invoked, with success = true exactly when no error was recorded.
StreamEndOnEveryClose ==
  (isClosed /\ lastOp = "close") =>
    /\ HookCount(hooks, "onStreamEnd") >= 1
    /\ \A i \in 1..Len(hooks) :
         hooks[i][1] = "onStreamEnd" =>
           (hooks[i][2] = "true" <=> hooks[i][3] = Undefined)

----------------------------------------------------------------------------
\* Properties of the circuit breaker, checked under CbSpec.

\* C7: a closed breaker stays closed while fewer than failureThreshold
\* counted failures have occurred since the last success (or reset()), opens
\* exactly on the failureThreshold-th one, and a success recorded while
\* closed sets the failure count to zero.
ThresholdOpensBreaker ==
  /\ [](state = "closed" => failures = consec /\ consec < failureThreshold)
  /\ [][/\ (state = "closed" /\ state' # "closed") =>
             /\ state' = "open"
             /\ \/ cbLast'.op = "forceOpen"
                \/ /\ cbLast'.op = "settle" /\ Counted(cbLast'.given)
                   /\ consec' = failureThreshold
        /\ (state = "closed" /\ cbLast'.op = "settle" /\ Counted(cbLast'.given)
              /\ consec' >= failureThreshold) => state' = "open"
        /\ (state = "closed" /\ cbLast'.op = "settle"
              /\ cbLast'.given.kind = "value") =>
             (failures' = 0 /\ state' = "closed")]_vars

\* The second of two consecutive failures opened a breaker of threshold 2.
ThresholdOpensBreakerWitness ==
  /\ failureThreshold = 2 /\ state = "open" /\ consec = 2
  /\ cbLast.op = "settle" /\ openedAt = now /\ failures = 2

\* C8: after entering open the breaker is open at every time less than
\* resetTimeoutMs later and half_open from then on, unless reset() is called;
\* also when operations admitted earlier settle while it is open.
OpenForResetTimeout ==
  /\ [](state = "open" => now <= openedAt + resetTimeoutMs)
  /\ [][(state = "open" /\ state' # "open" /\ cbLast'.op # "reset") =>
          (state' = "half_open" /\ now = openedAt + resetTimeoutMs)]_vars

\* C9: in half_open, the successThreshold-th success closes the breaker with
\* the failure count at zero (and no earlier success does), and one counted
\* failure opens it again with a fresh recovery timer of resetTimeoutMs.
HalfOpenProbes ==
  /\ [](state = "half_open" => hoSucc < successThreshold)
  /\ [][/\ (state = "half_open" /\ cbLast'.op = "settle"
              /\ cbLast'.given.kind = "value") =>
             IF hoSucc' >= successThreshold
               THEN state' = "closed" /\ failures' = 0
               ELSE state' = "half_open"
        /\ (state = "half_open" /\ cbLast'.op = "settle"
              /\ Counted(cbLast'.given)) =>
             (/\ state' = "open"
              /\ resetTimeout' = Pending(now + resetTimeoutMs))]_vars

\* Two successes in half_open closed a breaker of successThreshold 2.
HalfOpenProbesWitness ==
  /\ successThreshold = 2 /\ hoSucc = 2 /\ state = "closed"
  /\ cbLast.op = "settle" /\ cbLast.given.kind = "value" /\ failures = 0

\* C10: execute throws CircuitOpenError exactly when the state is open at
\* the call, and then does not invoke the operation; otherwise it invokes the
\* operation once and gives back its value or its error, unchanged.
ExecuteRefusesOnlyWhenOpen ==
  [][/\ cbLast'.op = "execute" =>
          /\ (cbLast'.out.kind = "CircuitOpenError") <=> (state = "open")
          /\ state = "open" => (~cbLast'.invoked /\ inflight' = inflight)
          /\ state # "open" => (cbLast'.invoked /\ inflight' = inflight + 1)
     /\ cbLast'.op = "settle" =>
          (cbLast'.out = cbLast'.given /\ inflight' = inflight - 1)]_vars

ExecuteRefusesOnlyWhenOpenWitness ==
  /\ cbLast.op = "execute" /\ cbLast.out.kind = "CircuitOpenError"
  /\ state = "open" /\ ~cbLast.invoked

\* C11: whenever execute is refused because the breaker is open, however it
\* came to be open, the CircuitOpenError's resetTimeoutMs equals the time left
\* until the pending recovery timer moves the breaker to half_open, and its
\* failures field equals the current failure count.
RefusalCarriesRemainingTime ==
  [][(cbLast'.op = "execute" /\ cbLast'.out.kind = "CircuitOpenError") =>
       (/\ resetTimeout.kind = "pending"
        /\ cbLast'.out.resetTimeoutMs = resetTimeout.due - now
        /\ cbLast'.out.failures = failures)]_vars

\* C12: with no custom isFailure predicate every rejection of the wrapped
\* operation counts as a failure (failure count incremented, onFailure
\* called), whatever value the operation rejects with; with a custom
\* predicate a rejection counts exactly when the predicate returns true.
EveryRejectionCounts ==
  [][(cbLast'.op = "settle" /\ cbLast'.given.kind # "value") =>
       LET counted == /\ failures' = failures + 1
                      /\ cbLast'.onFailure = <<failures + 1>>
           ignored == failures' = failures /\ cbLast'.onFailure = <<>>
       IN  IF customIsFailure
             THEN IF isFailure(CbCur, cbLast'.given) THEN counted ELSE ignored
             ELSE counted]_vars

----------------------------------------------------------------------------
\* Properties of the shared breaker registry, checked under RegSpec.

\* The names whose last lookup has not been followed by a removal, a
\* clear-all or an eviction.
NamesHeld == {n \in RegNames : regSeen[n].inst # 0 /\ ~regSeen[n].gone}

\* C13: two getSharedCircuitBreaker calls with the same name return the same
\* instance exactly when no removal, clear-all or TTL expiry of that name
\* lies between them; the TTL runs from the most recent access (an entry is
\* evicted exactly when that much time has passed, and not otherwise);
\* different names get different instances; the entry count is the number of
\* names currently held.
SameNameSameBreaker ==
  /\ [](\A n \in RegNames :
          /\ globalBreakers[n].held <=> n \in NamesHeld
          /\ n \in NamesHeld =>
               regNow <= regSeen[n].access + regSeen[n].ttl
          /\ \A m \in RegNames \ {n} :
               regSeen[n].inst # 0 => regSeen[n].inst # regSeen[m].inst)
  /\ [](getSharedCircuitBreakerCount(RegCur) = Cardinality(NamesHeld))
  /\ [][/\ (regLast'.op = "get" /\ regSeen[regLast'.name].inst # 0) =>
             ((regLast'.returned = regSeen[regLast'.name].inst)
                <=> regLast'.name \in NamesHeld)
        /\ regLast'.op = "cleanup" =>
             /\ regLast'.name \in NamesHeld
             /\ regNow = regSeen[regLast'.name].access
                           + regSeen[regLast'.name].ttl]_vars

\* Name "a" was looked up again at time 3 and the caller got the first
\* instance back; name "b" got the second instance and lost its entry since.
SameNameSameBreakerWitness ==
  /\ regLast = [op |-> "get", name |-> "a", returned |-> 1]
  /\ regSeen["a"] = [inst |-> 1, access |-> 3, ttl |-> 1, gone |-> FALSE]
  /\ regSeen["b"].inst = 2 /\ regSeen["b"].gone
  /\ cleanupTimers = {[name |-> "a", due |-> 4]}

----------------------------------------------------------------------------
\* Properties of the reconnection manager, withRetry and sleep, checked
\* under RetrySpec.

\* The operation of call c has just failed (c the call before the step, d
\* after it) with a cancellation error or while the signal was aborted.
FailedCancelled(c, d) ==
  /\ c.pc = "operation" /\ d.pc # "operation" /\ d.outcome.kind # "value"
  /\ isCancellationError(d.outcome) \/ c.signal = "aborted"

\* The call rejected with the error of the operation, without a new
\* invocation and without a timer.
RethrownAtOnce(c, d) ==
  /\ d.pc = "rejected" /\ d.result = d.outcome
  /\ d.invoked = c.invoked /\ ~d.timer

\* C14: neither execute nor withRetry invokes the operation again after it
\* failed with a cancellation error (message contains 'aborted', or name
\* 'AbortError') or while the signal is aborted, whatever the attempts left
\* and whatever a custom shouldRetry says; the error is rethrown at once
\* and the finished call never invokes the operation again.
CancellationNeverRetried ==
  [][/\ \A id \in CallIds :
          /\ FailedCancelled(calls[id], calls'[id]) =>
               RethrownAtOnce(calls[id], calls'[id])
          /\ calls[id].pc = "rejected" => calls'[id] = calls[id]
     /\ FailedCancelled(wr, wr') => RethrownAtOnce(wr, wr')
     /\ wr.pc = "rejected" => wr' = wr]_vars

\* An execute call with two retries allowed rejected with the AbortError
\* its second invocation failed with; or a withRetry call whose predicate
\* says yes to everything did.
CancellationNeverRetriedWitness ==
  LET cancelled(c) ==
        /\ c.pc = "rejected" /\ c.invoked = 2
        /\ c.outcome.name = "AbortError" /\ c.result = c.outcome
        /\ c.signal = "idle"
  IN  /\ retryConfig.maxRetries = 2
      /\ cancelled(calls[1]) \/ (cancelled(wr) /\ wr.shouldRetry = "always")

\* C15: no error is retried more than the configured maximum: every call of
\* execute, also when execute calls on one manager overlap, and every call
\* of withRetry invokes the operation at most maxRetries + 1 times.
RetriesAreBounded ==
  /\ \A id \in CallIds : calls[id].invoked <= retryConfig.maxRetries + 1
  /\ wr.invoked <= retryConfig.maxRetries + 1

\* An error withRetry may retry: its predicate says yes and it is not a
\* cancellation.
Retryable(w, error) ==
  /\ error.kind # "value"
  /\ shouldRetryFn(w, error) /\ ~isCancellationError(error)

\* C16: a withRetry call whose operation fails k <= maxRetries times with
\* retryable errors and then succeeds returns the success value, after
\* exactly k + 1 invocations and exactly k onRetry calls with attempt numbers
\* 1..k in order; with jitter disabled the delays are
\* calculateBackoffDelay(0..k-1) and never decrease.
WithRetryEventuallySucceeds ==
  /\ [](wr.pc = "returned" =>
          /\ wr.outcome.kind = "value" /\ wr.result = wr.outcome
          /\ wr.invoked = wr.failures + 1
          /\ Len(wr.onRetry) = wr.failures
          /\ \A i \in 1..Len(wr.onRetry) :
               /\ wr.onRetry[i].attempt = i
               /\ ~retryConfig.jitter =>
                    wr.onRetry[i].delayMs =
                      calculateBackoffDelay(i - 1, retryConfig, Frac(0, 1))
               /\ (~retryConfig.jitter /\ i > 1) =>
                    wr.onRetry[i - 1].delayMs <= wr.onRetry[i].delayMs)
  /\ [][/\ (wr.pc = "operation" /\ wr'.pc # "operation"
              /\ wr'.outcome.kind = "value") => wr'.pc = "returned"
        /\ (wr.pc = "operation" /\ wr'.pc # "operation"
              /\ Retryable(WrCur, wr'.outcome) /\ wr.signal # "aborted"
              /\ wr.failures < retryConfig.maxRetries) =>
             (wr'.pc = "sleep" /\ wr'.timer)
        /\ (wr.pc = "sleep" /\ wr'.pc # "sleep" /\ wr'.signal = wr.signal) =>
             (wr'.pc = "operation" /\ wr'.invoked = wr.invoked + 1)]_vars

\* Two network errors, then success, with two retries allowed and no
\* jitter: onRetry(1, 1, error), onRetry(2, 2, error).
WithRetryEventuallySucceedsWitness ==
  /\ wr.pc = "returned" /\ wr.failures = 2 /\ wr.invoked = 3
  /\ retryConfig.maxRetries = 2 /\ ~retryConfig.jitter
  /\ Len(wr.onRetry) = 2
  /\ wr.onRetry[1].delayMs = 1 /\ wr.onRetry[2].delayMs = 2
  /\ wr.shouldRetry = "undefined"

\* C17: when an execute call succeeds, after any number of retries,
\* onConnected has been invoked once for that call (and never for a call
\* that has not succeeded) and the manager's attempt counter is zero when
\* execute returns.
ConnectedResetsAttempts ==
  /\ [](\A id \in CallIds :
          calls[id].onConnected = IF calls[id].pc = "returned" THEN 1 ELSE 0)
  /\ [][\A id \in CallIds :
          (calls[id].pc = "operation" /\ calls'[id].pc = "returned") =>
            /\ managerState'.attempt = 0
            /\ calls'[id].result = calls'[id].outcome
            /\ calls'[id].outcome.kind = "value"]_vars

\* An execute call returned after two retries; no other call ran.
ConnectedResetsAttemptsWitness ==
  /\ calls[1].pc = "returned" /\ calls[1].invoked = 3
  /\ calls[1].onReconnecting = 2 /\ calls[1].onConnected = 1
  /\ managerState.attempt = 0 /\ calls[2].pc = "idle"

\* The operation of an execute call has just failed with an error that is
\* no cancellation while the signal was not aborted, and the call ended.
GaveUp(c, d) ==
  /\ c.pc = "operation" /\ d.pc = "rejected"
  /\ ~isCancellationError(d.outcome) /\ c.signal # "aborted"

\* C18: when an execute call gives up, because the error is not retryable
\* or because the retries are used up, onFailed is invoked exactly once and
\* execute rejects with the operation's original error; an error that is
\* not retryable always makes the call give up; onFailed is never invoked
\* for a call that ends in success.
GiveUpCallsOnFailedOnce ==
  /\ [](\A id \in CallIds :
          /\ Len(calls[id].onFailed) <= 1
          /\ calls[id].onFailed # <<>> => calls[id].pc = "rejected")
  /\ [][\A id \in CallIds :
          /\ GaveUp(calls[id], calls'[id]) =>
               /\ calls'[id].onFailed = <<AsError(calls'[id].outcome)>>
               /\ calls'[id].result = calls'[id].outcome
          /\ (calls[id].pc = "operation" /\ calls'[id].pc # "operation"
                /\ calls'[id].outcome.kind # "value"
                /\ ~isNetworkError(calls'[id].outcome)) =>
               calls'[id].pc = "rejected"]_vars

\* An execute call with two retries allowed gave up after its third
\* network error.
GiveUpCallsOnFailedOnceWitness ==
  /\ retryConfig.maxRetries = 2
  /\ calls[1].pc = "rejected" /\ calls[1].invoked = 3
  /\ Len(calls[1].onFailed) = 1 /\ isNetworkError(calls[1].onFailed[1])
  /\ calls[1].result = calls[1].onFailed[1]
  /\ calls[2].pc = "idle"

\* The signal of a call fired while the call was sleeping between attempts
\* (c the call before the step, d after it).
AbortedWhileSleeping(c, d) ==
  c.pc = "sleep" /\ c.timer /\ c.signal = "idle" /\ d.signal = "aborted"

\* C19: the backoff wait is abortable: if the signal fires while execute or
\* withRetry sleeps between attempts, the sleep rejects at once, its timer
\* is cleared, the operation is not invoked again and the call rejects;
\* sleep with a signal that is already aborted rejects without arming a
\* timer.
SleepIsAbortable ==
  /\ [][/\ \A id \in CallIds :
             /\ AbortedWhileSleeping(calls[id], calls'[id]) =>
                  /\ calls'[id].pc = "rejected" /\ ~calls'[id].timer
                  /\ calls'[id].result = SleepAborted
                  /\ calls'[id].invoked = calls[id].invoked
             /\ calls[id].pc = "rejected" =>
                  calls'[id].invoked = calls[id].invoked
        /\ AbortedWhileSleeping(wr, wr') =>
             /\ wr'.pc = "rejected" /\ ~wr'.timer
             /\ wr'.result = SleepAborted /\ wr'.invoked = wr.invoked
        /\ wr.pc = "rejected" => wr'.invoked = wr.invoked
        /\ AbortedWhileSleeping(sl, sl') =>
             (sl'.pc = "rejected" /\ ~sl'.timer /\ sl'.result = SleepAborted)
        /\ (sl.pc = "idle" /\ sl'.signal = "aborted") =>
             /\ sl'.pc = "rejected" /\ sl'.result = SleepAborted
             /\ ~sl'.timer /\ sl'.armed = 0]_vars
  /\ [](\A id \in CallIds : calls[id].timer => calls[id].pc = "sleep")
  /\ [](wr.timer => wr.pc = "sleep")
  /\ [](sl.timer => sl.pc = "sleep")

\* An execute call was aborted in its second sleep.
SleepIsAbortableWitness ==
  /\ calls[1].pc = "rejected" /\ calls[1].result = SleepAborted
  /\ calls[1].signal = "aborted" /\ ~calls[1].timer
  /\ calls[1].invoked = 2 /\ calls[1].onReconnecting = 2
  /\ calls[1].onFailed = <<>>

----------------------------------------------------------------------------
\* Properties of calculateBackoffDelay, checked under BackoffSpec.

\* base = min(initialDelayMs * backoffMultiplier^attempt, maxDelayMs) of the
\* last call.
BackoffBase ==
  Min(backoff.config.initialDelayMs
        * Pow(backoff.config.backoffMultiplier, backoff.attempt),
      backoff.config.maxDelayMs)

\* delay < base * (1 + jitterFactor), in integers.
BelowJitterCeiling ==
  backoff.delay * backoff.config.jitterFactor.den
    < BackoffBase * (backoff.config.jitterFactor.den
                       + backoff.config.jitterFactor.num)

\* C20, as stated: calculateBackoffDelay(attempt, cfg) equals base exactly
\* when jitter is disabled and is an integer in
\* [base, base * (1 + jitterFactor)) when jitter is enabled.
BackoffDelayInHalfOpenRange ==
  backoff.called =>
    IF backoff.config.jitter
      THEN /\ backoff.delay \in Int
           /\ BackoffBase <= backoff.delay /\ BelowJitterCeiling
      ELSE backoff.delay = BackoffBase

\* C20, amended: calculateBackoffDelay(attempt, cfg) equals base exactly
\* when jitter is disabled; when jitter is enabled it is an integer in
\* [base, base * (1 + jitterFactor)) if base * jitterFactor > 0, and equals
\* base if base * jitterFactor = 0 (the interval is empty then).
BackoffDelayInRangeOrBase ==
  backoff.called =>
    IF backoff.config.jitter
         /\ BackoffBase * backoff.config.jitterFactor.num > 0
      THEN /\ backoff.delay \in Int
           /\ BackoffBase <= backoff.delay /\ BelowJitterCeiling
      ELSE backoff.delay = BackoffBase

\* Attempt 2 of a configuration whose exponential delay 2 * 2^2 = 8 is
\* capped at 6, with jitter of up to one half: 6 + floor(6 * 1/2 * 3/4) = 8.
BackoffDelayInRangeOrBaseWitness ==
  /\ backoff.called /\ backoff.config.jitter
  /\ backoff.config = RetryConfig(0, 2, 6, 2, TRUE, Frac(1, 2))
  /\ backoff.attempt = 2 /\ backoff.random = Frac(3, 4)
  /\ backoff.delay = 8

----------------------------------------------------------------------------
\* Properties of the timeout utilities, checked under TimeoutSpec.

\* C21: the signal of createTimeoutController(timeoutMs, upstream) is
\* aborted exactly when the first of these has happened: timeoutMs elapsed
\* without clear() having been called (reason: a TimeoutError of type
\* 'request'), or the upstream signal fired (reason: the upstream's reason);
\* it starts aborted when the upstream is already aborted, and after clear()
\* with no upstream abort it is never aborted.
TimeoutSignalFollowsFirstCause ==
  tc.handed = "controller" =>
    LET due == tc.createdAt + tc.timeoutMs
    IN  /\ tc.signal.aborted = (tc.first # "none")
        /\ tc.first = "timeout" =>
             /\ tc.signal.reason = TimeoutError("request", tc.timeoutMs)
             /\ toClock >= due
        /\ tc.first = "upstream" =>
             tc.existing.aborted /\ tc.signal.reason = tc.existing.reason
        /\ tc.existing.aborted => tc.signal.aborted
        /\ (toClock > due /\ ~tc.cleared) => tc.signal.aborted
        /\ (tc.cleared /\ tc.first = "none") => ~tc.signal.aborted

\* The timer of a controller made with 2 ms fired first, the upstream
\* signal was aborted afterwards, and then clear() was called.
TimeoutSignalFollowsFirstCauseWitness ==
  /\ tc.pc = "created" /\ tc.timeoutMs = 2 /\ tc.first = "timeout"
  /\ tc.signal.reason = TimeoutError("request", 2)
  /\ tc.existing.aborted /\ tc.existing.reason = UserCancelled
  /\ tc.cleared

\* C22: a zero-duration request timeout disables the timer entirely: with
\* requestMs = 0 fetchWithTimeout arms no request timer and the signal it
\* hands to the operation is never aborted because of elapsed time (only by
\* the upstream signal, with the upstream's reason); with idleMs = 0
\* readStreamWithIdleTimeout arms no timer and never cancels the reader.
ZeroDurationDisablesTimer ==
  /\ (tc.pc \in {"fetching", "settled"} /\ tc.timeoutMs = 0) =>
       /\ tc.armed = 0 /\ tc.timers = {}
       /\ handedSignal(tc).reason.kind # "TimeoutError"
       /\ handedSignal(tc).aborted =>
            /\ tc.existing.aborted
            /\ handedSignal(tc).reason = tc.existing.reason
  /\ (rs.pc # "unused" /\ rs.idleMs = 0) =>
       rs.it.armed = 0 /\ rs.it.timers = {} /\ rs.cancel = <<>>

\* A fetchWithTimeout call with requestMs = 0 and an upstream signal is
\* still waiting for fetchFn at the end of the clock, its signal not aborted.
ZeroDurationDisablesTimerWitness ==
  /\ tc.pc = "fetching" /\ tc.timeoutMs = 0 /\ tc.handed = "existing"
  /\ toClock = MaxClock /\ ~handedSignal(tc).aborted

\* C23: for an idle timeout made by createIdleTimeout, touch() cancels the
\* running timer and starts a fresh one of the full duration (so at most one
\* timer is pending, due timeoutMs after the last touch), and clear() cancels
\* it permanently: after clear() the timeout callback is never invoked,
\* whatever touch() or clear() calls follow.
IdleClearIsPermanent ==
  idt.pc = "created" =>
    /\ \A handle \in idt.it.timers :
         /\ handle = idt.it.timeout
         /\ handle.due = idt.touchedAt + idt.it.timeoutMs
    /\ idt.afterClear = 0

\* C24: in readStreamWithIdleTimeout with idleMs > 0, reader.cancel is
\* never called while every chunk arrives less than idleMs after the
\* previous one (or after the start, for the first); once the silence is
\* longer than idleMs, reader.cancel has been called exactly once over the
\* whole run, with a TimeoutError of type 'idle'.
IdleGapCancelsOnce ==
  (rs.pc # "unused" /\ rs.idleMs > 0) =>
    /\ Len(rs.cancel) <= 1
    /\ \A i \in 1..Len(rs.cancel) :
         rs.cancel[i] = TimeoutError("idle", rs.idleMs)
    /\ rs.cancel # <<>> => toClock - rs.lastAt >= rs.idleMs
    /\ (rs.pc = "reading" /\ toClock - rs.lastAt > rs.idleMs) =>
         Len(rs.cancel) = 1

\* With idleMs = 2, two chunks arrived in time, the second at time 2; the
\* silence that followed got the reader cancelled once, and time went on.
IdleGapCancelsOnceWitness ==
  /\ rs.idleMs = 2 /\ rs.chunks = 2 /\ rs.lastAt = 2 /\ toClock = 4
  /\ rs.cancel = <<TimeoutError("idle", 2)>>
  /\ rs.it.armed = 3 /\ rs.it.timers = {}

\* C25: a timeout is always surfaced to the caller as a rejected error:
\* when the idle timer fired during readStreamWithIdleTimeout (the reader
\* was cancelled and its pending read completed), the call has rejected
\* with a TimeoutError of type 'idle' and has not resolved normally.
IdleTimeoutRejects ==
  (rs.pc # "unused" /\ rs.cancel # <<>>) =>
    /\ rs.pc = "rejected"
    /\ rs.result = TimeoutError("idle", rs.idleMs)

----------------------------------------------------------------------------
\* Properties of the SSE codec, checked under ParserSpec.

\* The run feeds the text of one frame of formatSSEMessage.
OneEncodedFrame ==
  /\ parser.pc = "parsing" /\ parser.p.throwsOn = {}
  /\ Len(wire.frames) = 1
  /\ wire.frames[1].kind = "data"
  /\ wire.text = formatSSEMessage(wire.frames[1].message)

AllArrived == wire.fed = Len(wire.text)

\* C26: round trip: when the text formatSSEMessage makes of a frame (any
\* JSON data, id, retry and event each given or not) has been fed to a
\* fresh createSSEParser, onMessage has been called exactly once, with a
\* value equal to the frame's data, and onError has never been called.
RoundTrip ==
  OneEncodedFrame =>
    /\ parser.p.onError = <<>>
    /\ AllArrived => parser.p.onMessage = <<wire.frames[1].message.data>>

RoundTripWitness ==
  /\ OneEncodedFrame /\ AllArrived
  /\ parser.p.hasOnError
  /\ wire.frames[1].message.id # <<>>
  /\ wire.frames[1].message.retry # <<>>
  /\ wire.frames[1].message.event # <<>>
  /\ wire.frames[1].message.data = JStr("a\n\nb")
  /\ parser.p.onMessage = <<JStr("a\n\nb")>>

\* What a fresh parser of the same options has called once it was given
\* the whole text in one chunk.
Unsplit == parse(createSSEParser(parser.p.hasOnError, {}), wire.text)

\* C27: while the text of an encoded frame has not arrived up to the end of
\* its double-newline terminator, wherever it was cut, createSSEParser has
\* called neither callback; once the rest has arrived exactly one message
\* has been delivered, the one delivered when the unsplit text is fed.
SplitFrameDeliveredOnce ==
  OneEncodedFrame =>
    /\ ~AllArrived => parser.p.onMessage = <<>> /\ parser.p.onError = <<>>
    /\ AllArrived =>
         /\ Len(parser.p.onMessage) = 1
         /\ parser.p.onMessage = Unsplit.onMessage

\* All of the frame but the last line break of its terminator has arrived.
SplitFrameDeliveredOnceWitness ==
  /\ OneEncodedFrame
  /\ wire.fed = Len(wire.text) - 1
  /\ wire.frames[1].message.data = JObj(<<JMember("text", JStr("Hi"))>>)
  /\ parser.p.buffer = SubSeq(wire.text, 1, Len(wire.text) - 1)
  /\ parser.p.onMessage = <<>>
  /\ Unsplit.onMessage = <<JObj(<<JMember("text", JStr("Hi"))>>)>>

\* The frames that have arrived up to the end of their terminator.
RECURSIVE ArrivedFrames(_, _)
ArrivedFrames(frames, count) ==
  IF frames = <<>> \/ Len(FrameText(Head(frames))) > count THEN <<>>
  ELSE <<Head(frames)>>
         \o ArrivedFrames(Tail(frames), count - Len(FrameText(Head(frames))))

\* The data of the data frames among frames, in their order.
RECURSIVE DataOf(_)
DataOf(frames) ==
  IF frames = <<>> THEN <<>>
  ELSE (IF Head(frames).kind = "data" THEN <<Head(frames).message.data>>
        ELSE <<>>) \o DataOf(Tail(frames))

\* C28: whatever frames were written and however their text is cut into
\* chunks, the messages createSSEParser has delivered are the data of the
\* data frames that have arrived completely, one each and in the order of
\* arrival; comment (heartbeat) frames and empty frames add nothing.
MessagePerDataFrameInOrder ==
  parser.pc = "parsing" =>
    parser.p.onMessage = DataOf(ArrivedFrames(wire.frames, wire.fed))

MessagePerDataFrameInOrderWitness ==
  /\ parser.pc = "parsing" /\ AllArrived
  /\ Len(wire.frames) = 3
  /\ wire.frames[1].kind = "data"
  /\ wire.frames[2].kind \in {"comment", "empty"}
  /\ wire.frames[3].kind = "data"
  /\ wire.frames[3] # wire.frames[1]
  /\ parser.p.onMessage
       = <<wire.frames[1].message.data, wire.frames[3].message.data>>

\* The payloads of the malformed frames among frames, in their order.
RECURSIVE MalformedOf(_)
MalformedOf(frames) ==
  IF frames = <<>> THEN <<>>
  ELSE (IF Head(frames).kind = "malformed" THEN <<Head(frames).payload>>
        ELSE <<>>) \o MalformedOf(Tail(frames))

\* C29: a data line whose payload is not JSON does not end createSSEParser:
\* each one that has arrived was reported to onError once, with its first
\* 120 characters at most, no message was delivered for it, and the
\* well-formed frames that arrived after it, in the same chunk or a later
\* one, were delivered all the same.
MalformedLineReportedAndSkipped ==
  (parser.pc = "parsing" /\ parser.p.throwsOn = {}) =>
    LET arrived == ArrivedFrames(wire.frames, wire.fed)
        malformed == MalformedOf(arrived)
    IN  /\ parser.p.hasOnError =>
             /\ Len(parser.p.onError) = Len(malformed)
             /\ \A i \in 1..Len(malformed) :
                  /\ Len(parser.p.onError[i]) <= 120
                  /\ parser.p.onError[i]
                       = SubSeq(malformed[i], 1, Len(parser.p.onError[i]))
                  /\ Len(malformed[i]) <= 120
                       => parser.p.onError[i] = malformed[i]
        /\ ~parser.p.hasOnError => parser.p.onError = <<>>
        /\ Len(parser.p.onMessage) = Len(arrived) - Len(malformed)
             - Cardinality({i \in 1..Len(arrived) :
                              arrived[i].kind \in {"comment", "empty"}})
        /\ \A i \in 1..Len(arrived) :
             arrived[i].kind = "data" =>
               \E j \in 1..Len(parser.p.onMessage) :
                 parser.p.onMessage[j] = arrived[i].message.data

MalformedLineReportedAndSkippedWitness ==
  /\ parser.pc = "parsing" /\ AllArrived
  /\ parser.p.hasOnError
  /\ Len(wire.frames) = 3
  /\ wire.frames[1].kind = "data"
  /\ wire.frames[2] = MalformedFrame(<<>>, "{bad")
  /\ wire.frames[3].kind = "data"
  /\ parser.p.onError = <<"{bad">>
  /\ Len(parser.p.onMessage) = 2

----------------------------------------------------------------------------
\* Properties of parseSSEStream, checked under StreamSpec.

\* The handler the switch on an event tag leads to.
HandlerFor(event) ==
  CASE event = <<"start">> -> "onStart"
    [] event = <<"delta">> -> "onDelta"
    [] event = <<"done">> -> "onDone"
    [] event = <<"error">> -> "onError"
    [] OTHER -> "onProgress"

\* C30: in parseSSEStream the event tag is reset after each frame: every
\* handler call was chosen by the event: line of the frame whose data line
\* made it (the progress fallback when that frame has none), never by the
\* event: line of an earlier frame, whether that frame had no data line,
\* a data line that failed to parse or a handler that threw.
EventTagResetAfterEachFrame ==
  \A i \in 1..Len(sse.calls) :
    sse.calls[i].handler
      = HandlerFor(wire.frames[sse.calls[i].frame].message.event)

\* The place of frame i in the text, and whether its data line has arrived
\* up to its line break.
RECURSIVE FrameStart(_, _)
FrameStart(frames, i) ==
  IF i = 1 THEN 0
  ELSE FrameStart(frames, i - 1) + Len(FrameText(frames[i - 1]))

DataLineMet(i) ==
  /\ wire.frames[i].kind = "data"
  /\ wire.fed >= FrameStart(wire.frames, i) + Len(FrameText(wire.frames[i])) - 1

\* The frames tagged event whose data line the call has met.
MetFrames(event) ==
  {i \in 1..Len(wire.frames) :
     wire.frames[i].message.event = <<event>> /\ DataLineMet(i)}

First(indices) == CHOOSE i \in indices : \A j \in indices : i <= j
Last(indices) == CHOOSE i \in indices : \A j \in indices : j <= i

\* parsed.error || 'Unknown error'
ErrorMessageOf(payload) ==
  IF truthy(property(payload, "error")) THEN property(payload, "error")[1]
  ELSE JStr("Unknown error")

\* C31: once parseSSEStream has met a frame whose event tag is 'error', it
\* has called onError (when given) once, with the error message, and is
\* rejected with an SSEStreamError that carries the frame's payload; no
\* handler was called for a later frame and the reader lock is released.
\* Otherwise, when the stream ends, the call resolves with the payload of
\* the last 'done' frame, or with null, and the lock is released.
ErrorFrameRejectsStream ==
  sse.pc \in {"reading", "resolved", "rejected"} =>
    LET errors == MetFrames("error")
        dones == MetFrames("done")
    IN  IF errors # {}
          THEN LET e == First(errors)
                   payload == wire.frames[e].message.data
                   onErrors == {i \in 1..Len(sse.calls) :
                                  sse.calls[i].handler = "onError"}
               IN  /\ sse.pc = "rejected"
                   /\ sse.thrown
                        = <<SSEStreamError(ErrorMessageOf(payload), payload)>>
                   /\ sse.released
                   /\ "onError" \in sse.have =>
                        /\ Cardinality(onErrors) = 1
                        /\ sse.calls[Len(sse.calls)].handler = "onError"
                        /\ sse.calls[Len(sse.calls)].args
                             = <<ErrorMessageOf(payload)>>
                   /\ \A i \in 1..Len(sse.calls) : sse.calls[i].frame <= e
          ELSE sse.pc = "resolved" =>
                 /\ sse.released
                 /\ sse.finalData
                      = IF dones = {} THEN <<>>
                        ELSE <<wire.frames[Last(dones)].message.data>>

----------------------------------------------------------------------------
\* The wire format, checked under OrchSpec.

\* The fields of a frame in their fixed order, and the field a line holds
\* (0: none of them).
FieldPrefixes == <<"id: ", "retry: ", "event: ", "data: ">>
FieldOf(line) ==
  IF \E k \in 1..4 : startsWith(line, FieldPrefixes[k])
    THEN CHOOSE k \in 1..4 : startsWith(line, FieldPrefixes[k])
    ELSE 0

\* The lines of message as formatSSEMessage writes them: one line per field
\* given, in the order id, retry, event, data, then the blank line.
InFixedOrder(message) ==
  LET lines == split(formatSSEMessage(message), "\n")
      count == Len(lines) - 2
      given == {k \in 1..4 : \E i \in 1..count : FieldOf(lines[i]) = k}
  IN  /\ count >= 1
      /\ lines[count + 1] = "" /\ lines[count + 2] = ""
      /\ \A i \in 1..count : FieldOf(lines[i]) # 0
      /\ \A i \in 1..(count - 1) : FieldOf(lines[i]) < FieldOf(lines[i + 1])
      /\ lines[count] = "data: " \o JSONstringify(message.data)
      /\ (1 \in given) = (message.id # <<>>)
      /\ (2 \in given) = (message.retry # <<>>)
      /\ (3 \in given) = (message.event # <<>>)
      /\ \A i \in 1..count :
           /\ FieldOf(lines[i]) = 1 => lines[i] = "id: " \o message.id[1]
           /\ FieldOf(lines[i]) = 2 =>
                lines[i] = "retry: " \o NumberToString(message.retry[1])
           /\ FieldOf(lines[i]) = 3 => lines[i] = "event: " \o message.event[1]

FieldOrderFixed == \A message \in SSEMessages : InFixedOrder(message)

\* The update object as a JSON value: phase, then the members given.
UpdateJSON(u) ==
  LET member(key, v) ==
        IF v = Undefined THEN <<>> ELSE <<JMember(key, JStr(v))>>
  IN  JObj(<<JMember("phase", JStr(u.phase))>> \o member("message", u.message)
             \o member("result", u.result) \o member("error", u.error)
             \o (IF u.metadata = <<>> THEN <<>>
                 ELSE <<JMember("metadata", u.metadata[1])>>))

\* The updates the session is given, and the texts the codec makes of the
\* frames the session writes.
SentUpdates ==
  {u \in Updates : ~u.circular}
    \cup {MkUpdate(phase, message, Undefined, Undefined, FALSE) :
            phase \in Phases, message \in Messages}
    \cup {MkUpdate(CompletePhase, Undefined, "ok", Undefined, FALSE),
          MkUpdate(ErrorPhase, Undefined, Undefined, "boom", FALSE)}
    \cup {[MkUpdate(phase, "Working", Undefined, Undefined, FALSE)
             EXCEPT !.metadata = <<metadata>>] :
            phase \in Phases, metadata \in Metadatas}

CodecUpdateTexts ==
  {formatSSEMessage([NoMessage EXCEPT !.data = UpdateJSON(u)]) :
     u \in SentUpdates}
CodecEventText ==
  formatSSEMessage([NoMessage EXCEPT !.event = <<"delta">>,
                                     !.data = JStr("x")])
CodecHeartbeatText == ": [" \o HeartbeatMessage \o "]\n\n"

\* C32: formatSSEMessage writes, for every subset of the optional fields,
\* the lines in the order id, retry, event, data, with exactly one data line
\* and a blank line at the end; and every chunk the orchestrator has written
\* is the text the codec makes of the same frame: 'data: <json>\n\n' for an
\* update, 'event: <type>\ndata: <json>\n\n' for sendEvent and
\* ': [<message>]\n\n' for a heartbeat.
WireFormatIsTheCodecs ==
  /\ FieldOrderFixed
  /\ \A i \in 1..Len(sink) :
       CASE startsWith(sink[i], "event: ") -> sink[i] = CodecEventText
         [] startsWith(sink[i], "data: ") -> sink[i] \in CodecUpdateTexts
         [] OTHER -> sink[i] = CodecHeartbeatText
  /\ lastOp = "sendEvent" /\ ~isClosed /\ sink # <<>> =>
       sink[Len(sink)] = CodecEventText
  /\ lastOp \in UpdateOps /\ ~isClosed /\ sink # <<>> =>
       sink[Len(sink)] \in CodecUpdateTexts
  /\ lastOp = "heartbeat" /\ ~isClosed /\ sink # <<>> =>
       sink[Len(sink)] = CodecHeartbeatText

WireFormatIsTheCodecsWitness ==
  /\ lastOp = "sendEvent"
  /\ sink = <<"data: {\"phase\":\"processing\",\"message\":\"Working\"}\n\n",
              "event: delta\ndata: \"x\"\n\n">>

\* ---------------------------------------------------------------------
\* The session's resources, checked under OrchSpec.

\* C33: whenever the session is closed, whichever operation closed it
\* (close(), abort(), the signal firing, or a failed write in sendUpdate,
\* sendEvent or a heartbeat tick), the heartbeat timer is cancelled and the
\* external-signal listener is detached.
ResourcesReleasedWhenClosed ==
  isClosed => ~heartbeatInterval /\ ~abortHandler

\* ---------------------------------------------------------------------
\* The breaker's recovery timer, checked under CbSpec.

\* The number of recovery timers that are armed and have not fired.
PendingTimers == IF resetTimeout.kind = "pending" THEN 1 ELSE 0

\* C34: under any interleaving of execute completions, timer firings,
\* reset() and forceOpen(), one recovery timer is pending when the state is
\* open and none otherwise; the pending timer of an open breaker is due at most
\* resetTimeoutMs from now, so the breaker does not stay open forever; and
\* the breaker becomes half_open only from open, by its timer, so never after
\* reset() without opening again.
OneTimerIffOpen ==
  /\ [](PendingTimers = IF state = "open" THEN 1 ELSE 0)
  /\ [](state = "open" =>
          (now <= resetTimeout.due /\ resetTimeout.due <= now + resetTimeoutMs))
  /\ [][(state # "half_open" /\ state' = "half_open") =>
          (state = "open" /\ cbLast'.op = "timer")]_vars

\* reset() was called before the timer of the last opening was due: the
\* breaker is closed and no timer is pending.
OneTimerIffOpenWitness ==
  /\ cbLast.op = "reset" /\ state = "closed" /\ resetTimeout = NoTimer
  /\ openedAt > 0 /\ now < openedAt + resetTimeoutMs

\* ---------------------------------------------------------------------
\* The metrics, checked under OrchSpec.

\* The total encoded length of the chunks the sink received.
RECURSIVE TotalLength(_)
TotalLength(chunks) ==
  IF chunks = <<>> THEN 0
  ELSE EncodedLength(Head(chunks)) + TotalLength(Tail(chunks))

\* C35: bytesSent equals the total byte length of every frame written to the
\* sink (updates, typed events and heartbeats), never decreases, and does not
\* change once the session is closed.
BytesSentCountsEveryFrame ==
  /\ [](bytesSent = TotalLength(sink))
  /\ [][bytesSent' >= bytesSent /\ (isClosed => bytesSent' = bytesSent)]_vars

\* ---------------------------------------------------------------------
\* The cap of the backoff delay, checked under BackoffSpec.

\* C36: for every attempt and every configuration, with jitter on or off,
\* calculateBackoffDelay returns at most maxDelayMs.
DelayAtMostMaxDelayMs ==
  backoff.called => backoff.delay <= backoff.config.maxDelayMs

\* ---------------------------------------------------------------------
\* The failure count and the state, checked under CbSpec.

\* C37: with failureThreshold >= 1, under any interleaving of calls
\* (operations completing after the state changed included), the failure
\* count is below failureThreshold when the state is closed and at least
\* failureThreshold when it is open or half_open, and every onStateChange
\* call gets two different states, the second being the state entered.
FailureCountMatchesState ==
  /\ state = "closed" => failures < failureThreshold
  /\ state \in {"open", "half_open"} => failures >= failureThreshold
  /\ \A i \in 1..Len(cbLast.onStateChange) :
       cbLast.onStateChange[i][1] # cbLast.onStateChange[i][2]
  /\ cbLast.onStateChange # <<>> =>
       cbLast.onStateChange[Len(cbLast.onStateChange)][2] = state

\* An operation fails while the breaker is half_open: the count goes beyond
\* the threshold, the breaker opens again and onStateChange gets
\* (half_open, open).
FailureCountMatchesStateWitness ==
  /\ cbLast.op = "settle" /\ Counted(cbLast.given)
  /\ cbLast.onStateChange = <<(<<"half_open", "open">>)>>
  /\ failures > failureThreshold /\ state = "open"

\* ---------------------------------------------------------------------
\* A throwing onMessage, checked under ParserSpec.

\* The raw lines onError is given for frames: the payload of a malformed
\* data line, and the payload of a data line whose value onMessage threw for.
RECURSIVE ReportedOf(_, _)
ReportedOf(frames, throwsOn) ==
  IF frames = <<>> THEN <<>>
  ELSE LET f == Head(frames)
       IN  (IF f.kind = "malformed" THEN <<rawLine(f.payload)>>
            ELSE IF f.kind = "data" /\ f.message.data \in throwsOn
              THEN <<rawLine(JSONstringify(f.message.data))>>
            ELSE <<>>) \o ReportedOf(Tail(frames), throwsOn)

\* C38: parse() never lets an exception thrown by onMessage escape: each is
\* reported to onError with the raw line, as a parse failure is, and parsing
\* goes on with the following lines and frames, so that the loop calling
\* parse() delivers every data frame that arrives after the one onMessage
\* threw for.
OnMessageThrowIsContained ==
  parser.pc = "parsing" =>
    LET arrived == ArrivedFrames(wire.frames, wire.fed)
    IN  /\ parser.p.thrown = <<>>
        /\ parser.p.onMessage = DataOf(arrived)
        /\ parser.p.onError
             = IF parser.p.hasOnError
                 THEN ReportedOf(arrived, parser.p.throwsOn)
                 ELSE <<>>

\* onMessage threw for the first of three frames; the malformed second was
\* reported as well and the third was delivered.
OnMessageThrowIsContainedWitness ==
  /\ parser.pc = "parsing" /\ AllArrived
  /\ parser.p.hasOnError /\ parser.p.throwsOn = {JNum(1)}
  /\ wire.frames = <<DataFrame([NoMessage EXCEPT !.data = JNum(1)]),
                     MalformedFrame(<<>>, "{bad"),
                     DataFrame([NoMessage EXCEPT !.event = <<"update">>,
                                                 !.data = JStr("b")])>>
  /\ parser.p.onMessage = <<JNum(1), JStr("b")>>
  /\ parser.p.onError = <<"1", "{bad">>

\* ---------------------------------------------------------------------
\* Properties of useSSEStream, checked under HookSpec.

\* The stream of start call k is still running: the call is pending, its
\* controller was not aborted (by cancel(), reset() or a later start()) and
\* its own updates have neither completed it nor failed it.
StillRunning(k) ==
  /\ runs[k].pc \in {"running", "sleeping"}
  /\ ~runs[k].aborted
  /\ runs[k].ended = ""

\* C39: while the stream started by the most recent start() call is still
\* running, state.isStreaming is true, also when that call replaced an
\* earlier stream whose aborted attempt settles afterwards.
StreamingWhileLatestRuns ==
  (runs # <<>> /\ StillRunning(Len(runs))) => streamState.isStreaming

\* ---------------------------------------------------------------------
\* The order of the observer hooks, checked under OrchSpec.

\* C40: onStreamStart is the first observer hook invoked: no onAbort,
\* onStreamEnd, onUpdateSent, onHeartbeat or onError call precedes it, also
\* when the external signal is already aborted at construction.
OnStreamStartIsFirstHook ==
  hooks # <<>> => hooks[1][1] = "onStreamStart"

====
